---- MODULE Spec2Model ----
(***************************************************************************)
(* Model of the vanilla-dialogue tracker of the MantellaDialogue SKSE      *)
(* plugin: the ShowSubtitle hook, the MantellaDialogueTracker and the      *)
(* co-save callbacks, as a state machine over the plugin's statics.        *)
(* Texts are TLA+ strings, handled character by character where the code   *)
(* does so (split, the payload concatenation).                             *)
(***************************************************************************)
EXTENDS Integers, Sequences, FiniteSets, TLC

\* ---------------------------------------------------------------- bounds
\* largest number of exchanges held in s_dialogueHistory (all keys together)
MaxBacklog == 2
\* largest number of actors on the participants form list
\* the game hours the calendar reaches
MaxHours == 13
MaxRoster == 1

\* ------------------------------------------------------- the host's world
nullptr == "nullptr"
\* a pointer to an array or a struct is a sequence of zero or one pointee
null == <<>>
PointerTo(x) == <<x>>
Deref(p) == p[1]
\* RE::FormID of the two NPC actors of the model
Lydia == "000A2C94"
Nazeem == "00013BBF"
Actors == {Lydia, Nazeem}
\* a speaking reference that is not an actor (skyrim_cast<RE::Actor*> fails)
TalkingDoor == "0003B540"
Speakers == {nullptr, TalkingDoor} \cup Actors

GetDisplayFullName(actor) == IF actor = Lydia THEN "Lydia" ELSE "Nazeem"

\* dialogue->responses: a response pointer is null or carries a text
ResponseLists ==
    { <<nullptr, "", "Farewell">>,
      <<"Go away.", "Now. ">>,
      <<"Do you need something?">>,
      <<"No.  Go away.">> }
\* dialogue->parentTopicInfo: null, or its kSayOnce flag
TopicInfos == {nullptr, "kSayOnce", "repeatable"}
\* MenuTopicManager::lastSelectedDialogue. The responses are varied for the
\* topic text that reaches the filter's response rules, the say-once flag for
\* the greeting (no other topic text reads it), which also comes with a short
\* response.
Dialogue(topicText, responses, parentTopicInfo) ==
    PointerTo([topicText |-> topicText, responses |-> responses,
               parentTopicInfo |-> parentTopicInfo])
Dialogues ==
    {null, Dialogue("", <<"Do you need something?">>, "repeatable"),
           Dialogue("Stage1Hello", <<"Do you need something?">>, "repeatable")}
    \cup {Dialogue("Work?", responses, "repeatable") : responses \in ResponseLists}
    \cup {Dialogue("Hello", <<"Do you need something?">>, info) : info \in TopicInfos}
    \cup {Dialogue("Hello", <<"Go away.", "Now. ">>, info) : info \in {nullptr, "kSayOnce"}}
\* the calls of the hook: a null or non-actor speaker with one dialogue, an
\* actor with every dialogue
HookCalls ==
    {c \in Speakers \X Dialogues :
        c[1] \notin Actors =>
            c[2] = Dialogue("Work?", <<"Do you need something?">>, "repeatable")}

\* --------------------------------------------------------- configuration
\* MantellaDialogueIniConfig::loadConfiguration: the defaults, and what the
\* INI handler can overwrite them with
DefaultNPCLineBlacklist == <<"Can I help you?", "Farewell", "See you later">>
DefaultPlayerLineBlacklist ==
    <<"Stage1Hello", "I want you to..", "Goodbye. (Remove from Mantella conversation)">>

DefaultConfig ==
    [ EnableVanillaDialogueTracking |-> TRUE,
      FilterShortReplies |-> TRUE,
      FilterShortRepliesMinWordCount |-> 4,
      FilterNonUniqueGreetings |-> TRUE,
      NPCLineBlacklist |-> DefaultNPCLineBlacklist,
      PlayerLineBlacklist |-> DefaultPlayerLineBlacklist,
      NPCNamesToIgnore |-> <<>> ]

\* what MantellaDialogue.ini makes of the defaults in the installations of the model
TrackingOffConfig == [DefaultConfig EXCEPT !.EnableVanillaDialogueTracking = FALSE]
FiltersOffConfig ==
    [DefaultConfig EXCEPT !.FilterShortReplies = FALSE,
                          !.FilterNonUniqueGreetings = FALSE,
                          !.NPCNamesToIgnore = <<"Nazeem">>]

\* an installation: the configuration, the name of the player's actor base
\* ("" = none) and whether Mantella.esp's participants form list is loaded
Installations ==
    { [config |-> DefaultConfig, playerBaseName |-> "", formListExists |-> TRUE],
      [config |-> DefaultConfig, playerBaseName |-> "Bo", formListExists |-> FALSE],
      [config |-> TrackingOffConfig, playerBaseName |-> "", formListExists |-> TRUE],
      [config |-> FiltersOffConfig, playerBaseName |-> "Bo", formListExists |-> TRUE] }

\* ------------------------------------------------------------ std helpers
\* std::find(v.begin(), v.end(), x) != v.end()
Contains(v, x) == \E i \in 1..Len(v) : v[i] = x

CharAt(s, i) == SubSeq(s, i, i)

\* index of the first delimiter in s, 0 if there is none
FirstIndexOf(s, delimiter) ==
    LET hits == {i \in 1..Len(s) : CharAt(s, i) = delimiter}
    IN  IF hits = {} THEN 0 ELSE CHOOSE i \in hits : \A j \in hits : i <= j

\* MantellaDialogueIniConfig::split: std::getline over the string, so a
\* delimiter ends a token (empty tokens included) and the rest after the
\* last delimiter is a token only when it is not empty
RECURSIVE split(_, _)
split(s, delimiter) ==
    IF Len(s) = 0 THEN <<>>
    ELSE LET i == FirstIndexOf(s, delimiter)
         IN  IF i = 0 THEN <<s>>
             ELSE <<SubSeq(s, 1, i - 1)>> \o split(SubSeq(s, i + 1, Len(s)), delimiter)

\* ------------------------------------------------------------------ state
VARIABLES
    config,                  \* MantellaDialogueIniConfig::config
    playerBaseName,          \* name of the player's actor base
    hoursPassed,             \* RE::Calendar::GetHoursPassed(), the hours since the game began
    formListExists,          \* Mantella.esp's participants form list is loaded
    scriptAddedTempForms,    \* the form list's script-added array (the roster)
    setupDone,               \* kDataLoaded has been delivered
    aParticipants,           \* MantellaDialogueTracker::aParticipants
    DialogueTrackerHasError, \* MantellaDialogueTracker::DialogueTrackerHasError
    s_dialogueHistory,       \* FormID -> sequence of DialogueLine (the backlog)
    s_lastParticipants,      \* MantellaDialogueTracker::s_lastParticipants
    s_lastPlayerTopicText,   \* ShowSubtitle::s_lastPlayerTopicText
    coSave,                  \* the plugin's records in the SKSE co-save last written
    alreadyDrained,          \* exchanges sent in a drain payload and not appended since
    undelivered,             \* exchanges of a drain payload that AddMantellaEvent did not
                             \* dispatch, and not appended since
    sent,                    \* texts the last step passed to AddMantellaEvent
    op                       \* the last step: the plugin function called (the hook with
                             \* its speaker and dialogue), or the host's change

vars == << config, playerBaseName, hoursPassed, formListExists, scriptAddedTempForms,
           setupDone, aParticipants, DialogueTrackerHasError, s_dialogueHistory,
           s_lastParticipants, s_lastPlayerTopicText, coSave, alreadyDrained, undelivered,
           sent, op >>

hostVars == << config, playerBaseName, hoursPassed, formListExists, scriptAddedTempForms,
              coSave >>
trackerVars == << aParticipants, DialogueTrackerHasError, s_lastParticipants >>

\* number of exchanges in the backlog
RECURSIVE TotalLines(_)
TotalLines(history) ==
    IF DOMAIN history = {} THEN 0
    ELSE LET k == CHOOSE x \in DOMAIN history : TRUE
         IN  Len(history[k]) + TotalLines([x \in DOMAIN history \ {k} |-> history[x]])

EmptyHistory == [k \in {} |-> <<>>]

Init ==
    /\ \E installation \in Installations :
           /\ config = installation.config
           /\ playerBaseName = installation.playerBaseName
           /\ formListExists = installation.formListExists
    /\ hoursPassed = 0
    /\ scriptAddedTempForms = null
    /\ setupDone = FALSE
    /\ aParticipants = nullptr
    /\ DialogueTrackerHasError = FALSE
    /\ s_dialogueHistory = EmptyHistory
    /\ s_lastParticipants = {}
    /\ s_lastPlayerTopicText = ""
    /\ coSave = <<>>
    /\ alreadyDrained = {}
    /\ undelivered = {}
    /\ sent = <<>>
    /\ op = [name |-> "SKSEPluginLoad", call |-> <<>>]

\* ------------------------------------------------- the host's own actions
RemoveForm(forms, formID) == SelectSeq(forms, LAMBDA f : f # formID)

\* Mantella's scripts add an actor to the participants form list
RosterAddForm(formID) ==
    /\ setupDone /\ formListExists
    /\ scriptAddedTempForms # null => Len(Deref(scriptAddedTempForms)) < MaxRoster
    /\ scriptAddedTempForms' =
           IF scriptAddedTempForms = null THEN PointerTo(<<formID>>)
           ELSE IF Contains(Deref(scriptAddedTempForms), formID) THEN scriptAddedTempForms
           ELSE PointerTo(Append(Deref(scriptAddedTempForms), formID))
    /\ op' = [name |-> "FormList", call |-> <<>>]
    /\ sent' = <<>>
    /\ UNCHANGED << config, playerBaseName, hoursPassed, formListExists, setupDone,
                    trackerVars, s_dialogueHistory, s_lastPlayerTopicText, coSave >>

\* Mantella's scripts take an actor off the participants form list
RosterRemoveAddedForm(formID) ==
    /\ setupDone /\ formListExists
    /\ scriptAddedTempForms # null
    /\ scriptAddedTempForms' = PointerTo(RemoveForm(Deref(scriptAddedTempForms), formID))
    /\ op' = [name |-> "FormList", call |-> <<>>]
    /\ sent' = <<>>
    /\ UNCHANGED << config, playerBaseName, hoursPassed, formListExists, setupDone,
                    trackerVars, s_dialogueHistory, s_lastPlayerTopicText, coSave >>

\* --------------------------------------------------- MantellaPapyrusInterface
\* MantellaPapyrusInterface::AddMantellaEvent: the method calls that reach the
\* MantellaInterface script. Nothing is dispatched when FindBoundObject does
\* not find the script, and the caller is not told.
AddMantellaEvent(msg, found) == IF found THEN <<msg>> ELSE <<>>

\* ------------------------------------------------ MantellaDialogueTracker
\* MantellaDialogueTracker::Setup, on SKSE's kDataLoaded message.
\* dataHandler is RE::TESDataHandler::GetSingleton(); LookupForm finds the
\* form list exactly when Mantella.esp has loaded it.
\* fault variant of SetupHasError: the failed lookup is not recorded
SetupHasError_DataHandlerOnly(dataHandler, participants) == dataHandler = nullptr

LookupForm == IF formListExists THEN "BGSListForm" ELSE nullptr

SetupHasError(dataHandler, participants) ==
    IF dataHandler = nullptr THEN TRUE ELSE participants = nullptr

Setup(dataHandler) ==
    /\ ~setupDone
    \* without a data handler no game data is loaded, the form list included
    /\ dataHandler = nullptr => ~formListExists
    /\ setupDone' = TRUE
    /\ aParticipants' = IF dataHandler = nullptr THEN aParticipants ELSE LookupForm
    /\ DialogueTrackerHasError' =
           IF SetupHasError(dataHandler, aParticipants') THEN TRUE
           ELSE DialogueTrackerHasError
    /\ op' = [name |-> "Setup", call |-> <<>>]
    /\ sent' = <<>>
    /\ UNCHANGED << hostVars, s_dialogueHistory, s_lastParticipants, s_lastPlayerTopicText >>

\* fault variant of IsConversationRunning: the conversation runs from its
\* start notification to its end notification
IsConversationRunning_ByNotification(participants, hasError, forms) ==
    IF participants = nullptr \/ hasError THEN FALSE ELSE s_lastParticipants # {}

\* fault variant of IsConversationRunning: an allocated but empty array counts
\* as a running conversation
IsConversationRunning_IgnoresEmpty(participants, hasError, forms) ==
    IF participants = nullptr \/ hasError THEN FALSE ELSE forms # null

\* MantellaDialogueTracker::IsConversationRunning
IsConversationRunning(participants, hasError, forms) ==
    IF participants = nullptr \/ hasError THEN FALSE
    ELSE IF forms = null THEN FALSE
    ELSE Len(Deref(forms)) # 0

\* MantellaDialogueTracker::IsActorInConversation
IsActorInConversation(a_actor, participants, hasError, forms) ==
    IF a_actor = nullptr \/ participants = nullptr \/ hasError THEN FALSE
    ELSE IF forms = null THEN FALSE
    ELSE Contains(Deref(forms), a_actor)

\* one line of the drain payload, as SendAndDiscardCapturedDialogue appends it
CapturedLineText(line) ==
    line.playerName \o ": " \o line.playerLine \o ";\n " \o line.npcName \o ": "
        \o line.npcLine \o " "

RECURSIVE ConcatenateLines(_)
ConcatenateLines(lines) ==
    IF lines = <<>> THEN ""
    ELSE CapturedLineText(Head(lines)) \o ConcatenateLines(Tail(lines))

\* fault variant of PopTrailingSpace: the trailing space stays
PopTrailingSpace_Never(text) == text

\* "Remove the trailing space, if any"
PopTrailingSpace(text) ==
    IF Len(text) # 0 /\ CharAt(text, Len(text)) = " "
    THEN SubSeq(text, 1, Len(text) - 1) ELSE text

WithoutKey(history, formID) == [k \in DOMAIN history \ {formID} |-> history[k]]

\* fault variant of SendAndDiscardCapturedDialogue: only the first captured
\* line is sent (as an earlier revision of the tracker did)
SendAndDiscardCapturedDialogue_FirstLineOnly(history, formID) ==
    IF formID \notin DOMAIN history THEN [history |-> history, sent |-> <<>>]
    ELSE LET concatenatedLines ==
                 PopTrailingSpace(ConcatenateLines(SubSeq(history[formID], 1, 1)))
         IN  [ history |-> WithoutKey(history, formID),
               sent |-> IF Len(concatenatedLines) # 0 THEN <<concatenatedLines>> ELSE <<>> ]

\* MantellaDialogueTracker::SendAndDiscardCapturedDialogue for the entry of
\* formID: the backlog afterwards and the texts passed to AddMantellaEvent
SendAndDiscardCapturedDialogue(history, formID) ==
    IF formID \notin DOMAIN history THEN [history |-> history, sent |-> <<>>]
    ELSE LET concatenatedLines == PopTrailingSpace(ConcatenateLines(history[formID]))
         IN  [ history |-> WithoutKey(history, formID),
               sent |-> IF Len(concatenatedLines) # 0 THEN <<concatenatedLines>> ELSE <<>> ]

\* the loop of OnConversationStarted over the roster array
RECURSIVE ReplayParticipants(_, _, _, _)
ReplayParticipants(forms, history, participants, texts) ==
    IF forms = <<>> THEN [history |-> history, lastParticipants |-> participants, sent |-> texts]
    ELSE LET formID == Head(forms)
             r == IF formID \in DOMAIN history
                  THEN SendAndDiscardCapturedDialogue(history, formID)
                  ELSE [history |-> history, sent |-> <<>>]
         IN  ReplayParticipants(Tail(forms), r.history, participants \cup {formID},
                                texts \o r.sent)

\* fault variant of OnConversationStarted: in the error state the captured
\* dialogue is thrown away
OnConversationStarted_ErrorClears ==
    /\ setupDone
    /\ op' = [name |-> "notifyConversationStart", call |-> <<>>]
    /\ IF DialogueTrackerHasError \/ aParticipants = nullptr
       THEN /\ sent' = <<>>
            /\ s_dialogueHistory' = EmptyHistory
            /\ UNCHANGED s_lastParticipants
       ELSE IF scriptAddedTempForms = null
       THEN /\ sent' = <<>>
            /\ s_lastParticipants' = {}
            /\ UNCHANGED s_dialogueHistory
       ELSE LET r == ReplayParticipants(Deref(scriptAddedTempForms), s_dialogueHistory, {}, <<>>)
            IN  /\ s_dialogueHistory' = r.history
                /\ s_lastParticipants' = r.lastParticipants
                /\ sent' = r.sent
    /\ UNCHANGED << hostVars, setupDone, aParticipants, DialogueTrackerHasError,
                    s_lastPlayerTopicText >>

\* fault variant of OnConversationStarted: when no roster member has captured
\* dialogue, an empty message is sent
OnConversationStarted_SendsEmpty ==
    /\ setupDone
    /\ op' = [name |-> "notifyConversationStart", call |-> <<>>]
    /\ IF DialogueTrackerHasError \/ aParticipants = nullptr
       THEN /\ sent' = <<>>
            /\ UNCHANGED << s_dialogueHistory, s_lastParticipants >>
       ELSE IF scriptAddedTempForms = null
       THEN /\ sent' = <<>>
            /\ s_lastParticipants' = {}
            /\ UNCHANGED s_dialogueHistory
       ELSE LET r == ReplayParticipants(Deref(scriptAddedTempForms), s_dialogueHistory, {}, <<>>)
            IN  /\ s_dialogueHistory' = r.history
                /\ s_lastParticipants' = r.lastParticipants
                /\ sent' = IF r.sent = <<>> /\ Deref(scriptAddedTempForms) # <<>>
                           THEN <<"">> ELSE r.sent
    /\ UNCHANGED << hostVars, setupDone, aParticipants, DialogueTrackerHasError,
                    s_lastPlayerTopicText >>

\* fault variant of OnConversationStarted: the participants of the previous
\* conversation are not cleared
OnConversationStarted_KeepsParticipants ==
    /\ setupDone
    /\ op' = [name |-> "notifyConversationStart", call |-> <<>>]
    /\ IF DialogueTrackerHasError \/ aParticipants = nullptr
       THEN /\ sent' = <<>>
            /\ UNCHANGED << s_dialogueHistory, s_lastParticipants >>
       ELSE IF scriptAddedTempForms = null
       THEN /\ sent' = <<>>
            /\ UNCHANGED << s_dialogueHistory, s_lastParticipants >>
       ELSE LET r == ReplayParticipants(Deref(scriptAddedTempForms), s_dialogueHistory,
                                        s_lastParticipants, <<>>)
            IN  /\ s_dialogueHistory' = r.history
                /\ s_lastParticipants' = r.lastParticipants
                /\ sent' = r.sent
    /\ UNCHANGED << hostVars, setupDone, aParticipants, DialogueTrackerHasError,
                    s_lastPlayerTopicText >>

\* MantellaDialogueTracker::OnConversationStarted, through notifyConversationStart
OnConversationStarted ==
    /\ setupDone
    /\ op' = [name |-> "notifyConversationStart", call |-> <<>>]
    /\ IF DialogueTrackerHasError \/ aParticipants = nullptr
       THEN /\ sent' = <<>>
            /\ UNCHANGED << s_dialogueHistory, s_lastParticipants >>
       ELSE IF scriptAddedTempForms = null
       THEN /\ sent' = <<>>
            /\ s_lastParticipants' = {}
            /\ UNCHANGED s_dialogueHistory
       ELSE LET r == ReplayParticipants(Deref(scriptAddedTempForms), s_dialogueHistory, {}, <<>>)
            IN  /\ s_dialogueHistory' = r.history
                /\ s_lastParticipants' = r.lastParticipants
                /\ sent' = r.sent
    /\ UNCHANGED << hostVars, setupDone, aParticipants, DialogueTrackerHasError,
                    s_lastPlayerTopicText >>

notifyConversationStart == OnConversationStarted

\* fault variant of notifyConversationEnd: the backlog is cleared with the
\* participant set
notifyConversationEnd_ClearsBacklog ==
    /\ setupDone
    /\ s_lastParticipants' = {}
    /\ s_dialogueHistory' = EmptyHistory
    /\ op' = [name |-> "notifyConversationEnd", call |-> <<>>]
    /\ sent' = <<>>
    /\ UNCHANGED << hostVars, setupDone, aParticipants, DialogueTrackerHasError,
                    s_lastPlayerTopicText >>

\* notifyConversationEnd
notifyConversationEnd ==
    /\ setupDone
    /\ s_lastParticipants' = {}
    /\ op' = [name |-> "notifyConversationEnd", call |-> <<>>]
    /\ sent' = <<>>
    /\ UNCHANGED << hostVars, setupDone, aParticipants, DialogueTrackerHasError,
                    s_dialogueHistory, s_lastPlayerTopicText >>

\* notifyActorAdded: logs the number of actors, nothing else
notifyActorAdded(actors) ==
    /\ setupDone
    /\ op' = [name |-> "notifyActorAdded", call |-> <<actors>>]
    /\ sent' = <<>>
    /\ UNCHANGED << hostVars, setupDone, trackerVars, s_dialogueHistory, s_lastPlayerTopicText >>

\* fault variant of notifyActorRemoved: the actors are taken out of the
\* participant set and their captured dialogue is dropped
notifyActorRemoved_DropsActors(actors) ==
    /\ setupDone
    /\ s_lastParticipants' = s_lastParticipants \ actors
    /\ s_dialogueHistory' = [k \in DOMAIN s_dialogueHistory \ actors |-> s_dialogueHistory[k]]
    /\ op' = [name |-> "notifyActorRemoved", call |-> <<actors>>]
    /\ sent' = <<>>
    /\ UNCHANGED << hostVars, setupDone, aParticipants, DialogueTrackerHasError,
                    s_lastPlayerTopicText >>

\* notifyActorRemoved: logs the number of actors, nothing else
notifyActorRemoved(actors) ==
    /\ setupDone
    /\ op' = [name |-> "notifyActorRemoved", call |-> <<actors>>]
    /\ sent' = <<>>
    /\ UNCHANGED << hostVars, setupDone, trackerVars, s_dialogueHistory, s_lastPlayerTopicText >>

\* fault variant of MyRevertCallback: the last processed query is forgotten too
MyRevertCallback_ForgetsQuery ==
    /\ setupDone
    /\ s_dialogueHistory' = EmptyHistory
    /\ s_lastPlayerTopicText' = ""
    /\ op' = [name |-> "MyRevertCallback", call |-> <<>>]
    /\ sent' = <<>>
    /\ UNCHANGED << hostVars, setupDone, trackerVars >>

\* fault variant of MyRevertCallback: the history is left as it is
MyRevertCallback_KeepsHistory ==
    /\ setupDone
    /\ s_dialogueHistory' = s_dialogueHistory
    /\ op' = [name |-> "MyRevertCallback", call |-> <<>>]
    /\ sent' = <<>>
    /\ UNCHANGED << hostVars, setupDone, trackerVars, s_lastPlayerTopicText >>

\* MyRevertCallback
MyRevertCallback ==
    /\ setupDone
    /\ s_dialogueHistory' = EmptyHistory
    /\ op' = [name |-> "MyRevertCallback", call |-> <<>>]
    /\ sent' = <<>>
    /\ UNCHANGED << hostVars, setupDone, trackerVars, s_lastPlayerTopicText >>

\* ------------------------------------------------------------ ShowSubtitle
\* Hooks::IsGreeting
IsGreeting(msg) == Contains(<<"Hello", "CYRGenericHello">>, msg)

\* GetCurrentGameTimeHours
GetCurrentGameTimeHours(calendar, hours) == IF calendar # nullptr THEN hours ELSE 0

\* fault variant of HasAlreadyProcessed: "Work?", once processed, stays
\* processed whatever was processed after it
HasAlreadyProcessed_RemembersWork(a_topicText, lastPlayerTopicText) ==
    a_topicText = lastPlayerTopicText \/ (a_topicText = "Work?" /\ lastPlayerTopicText # "")

\* fault variant of HasAlreadyProcessed: nothing is recognised as processed
HasAlreadyProcessed_Never(a_topicText, lastPlayerTopicText) == FALSE

\* ShowSubtitle::HasAlreadyProcessed
HasAlreadyProcessed(a_topicText, lastPlayerTopicText) == a_topicText = lastPlayerTopicText

\* ShowSubtitle::AddDialogueExchangeAsync: the text of a directly sent exchange
AddDialogueExchangeAsync(exchange) ==
    exchange.playerName \o ": " \o exchange.playerLine \o "; " \o exchange.npcName \o ": "
        \o exchange.npcLine

\* fault variant of ShouldFilterDialoge: every greeting is filtered, say-once
\* or not
ShouldFilterDialoge_AllGreetings(playerLine, npcLine, topicInfo, cfg, lastPlayerTopicText) ==
    IF HasAlreadyProcessed(playerLine, lastPlayerTopicText) THEN TRUE
    ELSE IF Contains(cfg.PlayerLineBlacklist, playerLine) THEN TRUE
    ELSE IF Contains(cfg.NPCLineBlacklist, npcLine) THEN TRUE
    ELSE IF /\ topicInfo # nullptr
            /\ cfg.FilterNonUniqueGreetings
            /\ IsGreeting(playerLine) THEN TRUE
    ELSE IF /\ cfg.FilterShortReplies
            /\ Len(split(npcLine, " ")) < cfg.FilterShortRepliesMinWordCount THEN TRUE
    ELSE FALSE

\* fault variant of ShouldFilterDialoge: a greeting without topic info is
\* filtered like one that is not say-once
ShouldFilterDialoge_NullInfoFilters(playerLine, npcLine, topicInfo, cfg, lastPlayerTopicText) ==
    IF HasAlreadyProcessed(playerLine, lastPlayerTopicText) THEN TRUE
    ELSE IF Contains(cfg.PlayerLineBlacklist, playerLine) THEN TRUE
    ELSE IF Contains(cfg.NPCLineBlacklist, npcLine) THEN TRUE
    ELSE IF /\ cfg.FilterNonUniqueGreetings
            /\ IsGreeting(playerLine)
            /\ topicInfo # "kSayOnce" THEN TRUE
    ELSE IF /\ cfg.FilterShortReplies
            /\ Len(split(npcLine, " ")) < cfg.FilterShortRepliesMinWordCount THEN TRUE
    ELSE FALSE

\* fault variant of ShouldFilterDialoge: the NPC line blacklist is not consulted
ShouldFilterDialoge_NoNpcBlacklist(playerLine, npcLine, topicInfo, cfg, lastPlayerTopicText) ==
    IF HasAlreadyProcessed(playerLine, lastPlayerTopicText) THEN TRUE
    ELSE IF Contains(cfg.PlayerLineBlacklist, playerLine) THEN TRUE
    ELSE IF /\ topicInfo # nullptr
            /\ cfg.FilterNonUniqueGreetings
            /\ IsGreeting(playerLine)
            /\ topicInfo # "kSayOnce" THEN TRUE
    ELSE IF /\ cfg.FilterShortReplies
            /\ Len(split(npcLine, " ")) < cfg.FilterShortRepliesMinWordCount THEN TRUE
    ELSE FALSE

\* ShowSubtitle::ShouldFilterDialoge
ShouldFilterDialoge(playerLine, npcLine, topicInfo, cfg, lastPlayerTopicText) ==
    IF HasAlreadyProcessed(playerLine, lastPlayerTopicText) THEN TRUE
    ELSE IF Contains(cfg.PlayerLineBlacklist, playerLine) THEN TRUE
    ELSE IF Contains(cfg.NPCLineBlacklist, npcLine) THEN TRUE
    ELSE IF /\ topicInfo # nullptr
            /\ cfg.FilterNonUniqueGreetings
            /\ IsGreeting(playerLine)
            /\ topicInfo # "kSayOnce" THEN TRUE
    ELSE IF /\ cfg.FilterShortReplies
            /\ Len(split(npcLine, " ")) < cfg.FilterShortRepliesMinWordCount THEN TRUE
    ELSE FALSE

\* "Build the NPC's response": the texts of the non-null, non-empty responses,
\* joined by one space
RECURSIVE BuildNpcLine(_, _)
BuildNpcLine(responses, npcLine) ==
    IF responses = <<>> THEN npcLine
    ELSE LET response == Head(responses)
         IN  IF response # nullptr /\ Len(response) # 0
             THEN BuildNpcLine(Tail(responses),
                               npcLine \o (IF Len(npcLine) = 0 THEN "" ELSE " ") \o response)
             ELSE BuildNpcLine(Tail(responses), npcLine)

\* "Get the player's name"
GetPlayerName(baseName) == IF Len(baseName) # 0 THEN baseName ELSE "Player"

\* the DialogueLine the hook builds from the selected dialogue
BuildExchange(actor, dialogue, baseName, hours) ==
    [ playerLine |-> dialogue.topicText,
      playerName |-> GetPlayerName(baseName),
      npcLine |-> BuildNpcLine(dialogue.responses, ""),
      npcName |-> GetDisplayFullName(actor),
      gameTimeHours |-> GetCurrentGameTimeHours("Calendar", hours) ]

\* fault variant of PushBack: the exchange is put in front of the earlier ones
PushBack_Front(history, formID, exchange) ==
    IF formID \in DOMAIN history
    THEN [history EXCEPT ![formID] = <<exchange>> \o @]
    ELSE [k \in DOMAIN history \cup {formID} |->
             IF k = formID THEN <<exchange>> ELSE history[k]]

\* s_dialogueHistory[formID].push_back(exchange)
PushBack(history, formID, exchange) ==
    IF formID \in DOMAIN history
    THEN [history EXCEPT ![formID] = Append(@, exchange)]
    ELSE [k \in DOMAIN history \cup {formID} |->
             IF k = formID THEN <<exchange>> ELSE history[k]]

\* fault variant of DispatchExchange: a participant's exchange is stored as well
DispatchExchange_AlwaysStores(history, exchange, formID, conversationRunning, actorInConversation, hasError) ==
    IF ~conversationRunning
    THEN IF ~hasError
         THEN [history |-> PushBack(history, formID, exchange), sent |-> <<>>]
         ELSE [history |-> history, sent |-> <<>>]
    ELSE [ history |-> IF ~hasError THEN PushBack(history, formID, exchange) ELSE history,
           sent |-> <<AddDialogueExchangeAsync(exchange)>> ]

\* fault variant of DispatchExchange: an outsider's exchange is sent but not stored
DispatchExchange_ForgetsOutsider(history, exchange, formID, conversationRunning, actorInConversation, hasError) ==
    IF ~conversationRunning
    THEN IF ~hasError
         THEN [history |-> PushBack(history, formID, exchange), sent |-> <<>>]
         ELSE [history |-> history, sent |-> <<>>]
    ELSE [history |-> history, sent |-> <<AddDialogueExchangeAsync(exchange)>>]

\* fault variant of DispatchExchange: with no conversation running the exchange
\* is stored even though the tracker is in its error state
DispatchExchange_StoresDespiteError(history, exchange, formID, conversationRunning, actorInConversation, hasError) ==
    IF ~conversationRunning
    THEN [history |-> PushBack(history, formID, exchange), sent |-> <<>>]
    ELSE IF actorInConversation
         THEN [history |-> history, sent |-> <<AddDialogueExchangeAsync(exchange)>>]
         ELSE [ history |-> IF ~hasError THEN PushBack(history, formID, exchange)
                            ELSE history,
                sent |-> <<AddDialogueExchangeAsync(exchange)>> ]

\* the decision of the hook for an exchange that passed the filter: the
\* backlog afterwards and the texts passed to AddMantellaEvent
DispatchExchange(history, exchange, formID, conversationRunning, actorInConversation, hasError) ==
    IF ~conversationRunning
    THEN IF ~hasError
         THEN [history |-> PushBack(history, formID, exchange), sent |-> <<>>]
         ELSE [history |-> history, sent |-> <<>>]
    ELSE IF actorInConversation
         THEN [history |-> history, sent |-> <<AddDialogueExchangeAsync(exchange)>>]
         ELSE [ history |-> IF ~hasError THEN PushBack(history, formID, exchange)
                            ELSE history,
                sent |-> <<AddDialogueExchangeAsync(exchange)>> ]

\* fault variant of ReturnsBeforeFilter: an empty topic text goes on to the filter
ReturnsBeforeFilter_AllowsEmpty(a_speaker, dialogue, cfg) ==
    IF ~cfg.EnableVanillaDialogueTracking THEN TRUE
    ELSE IF a_speaker = nullptr THEN TRUE
    ELSE IF dialogue = null THEN TRUE
    ELSE IF a_speaker \notin Actors THEN TRUE
    ELSE Contains(cfg.NPCNamesToIgnore, GetDisplayFullName(a_speaker))

\* fault variant of ReturnsBeforeFilter: the tracking switch is not looked at
ReturnsBeforeFilter_IgnoresSwitch(a_speaker, dialogue, cfg) ==
    IF a_speaker = nullptr THEN TRUE
    ELSE IF dialogue = null THEN TRUE
    ELSE IF Len(Deref(dialogue).topicText) = 0 THEN TRUE
    ELSE IF a_speaker \notin Actors THEN TRUE
    ELSE Contains(cfg.NPCNamesToIgnore, GetDisplayFullName(a_speaker))

\* fault variant of ReturnsBeforeFilter: the ignored names apply only while no
\* conversation is running
ReturnsBeforeFilter_IgnoresNames(a_speaker, dialogue, cfg) ==
    IF ~cfg.EnableVanillaDialogueTracking THEN TRUE
    ELSE IF a_speaker = nullptr THEN TRUE
    ELSE IF dialogue = null THEN TRUE
    ELSE IF Len(Deref(dialogue).topicText) = 0 THEN TRUE
    ELSE IF a_speaker \notin Actors THEN TRUE
    ELSE /\ Contains(cfg.NPCNamesToIgnore, GetDisplayFullName(a_speaker))
         /\ ~IsConversationRunning(aParticipants, DialogueTrackerHasError, scriptAddedTempForms)

\* the returns of the hook that come before the filter
ReturnsBeforeFilter(a_speaker, dialogue, cfg) ==
    IF ~cfg.EnableVanillaDialogueTracking THEN TRUE
    ELSE IF a_speaker = nullptr THEN TRUE
    ELSE IF dialogue = null THEN TRUE
    ELSE IF Len(Deref(dialogue).topicText) = 0 THEN TRUE
    ELSE IF a_speaker \notin Actors THEN TRUE
    ELSE Contains(cfg.NPCNamesToIgnore, GetDisplayFullName(a_speaker))

\* the hook does not dispatch the exchange
ThunkReturnsEarly(a_speaker, dialogue, cfg, lastPlayerTopicText) ==
    IF ReturnsBeforeFilter(a_speaker, dialogue, cfg) THEN TRUE
    ELSE ShouldFilterDialoge(Deref(dialogue).topicText,
                             BuildNpcLine(Deref(dialogue).responses, ""),
                             Deref(dialogue).parentTopicInfo, cfg, lastPlayerTopicText)

\* fault variant of UpdateLastPlayerTopicText: the text is not kept
UpdateLastPlayerTopicText_Cleared(a_topicText) == ""

\* ShowSubtitle::UpdateLastPlayerTopicText: the new s_lastPlayerTopicText
UpdateLastPlayerTopicText(a_topicText) == a_topicText

\* Hooks::ShowSubtitle::thunk, with the last selected dialogue of the menu
thunk(a_speaker, dialogue) ==
    /\ setupDone
    /\ op' = [name |-> "thunk", call |-> <<a_speaker, dialogue>>]
    /\ LET returnedEarly ==
               ThunkReturnsEarly(a_speaker, dialogue, config, s_lastPlayerTopicText)
       IN  IF returnedEarly
           THEN /\ sent' = <<>>
                /\ UNCHANGED << s_dialogueHistory, s_lastPlayerTopicText >>
           ELSE LET exchange ==
                        BuildExchange(a_speaker, Deref(dialogue), playerBaseName, hoursPassed)
                    r == DispatchExchange(
                             s_dialogueHistory, exchange, a_speaker,
                             IsConversationRunning(aParticipants, DialogueTrackerHasError,
                                                   scriptAddedTempForms),
                             IsActorInConversation(a_speaker, aParticipants,
                                                   DialogueTrackerHasError,
                                                   scriptAddedTempForms),
                             DialogueTrackerHasError)
                IN  /\ s_dialogueHistory' = r.history
                    /\ sent' = r.sent
                    /\ s_lastPlayerTopicText' = UpdateLastPlayerTopicText(exchange.playerLine)
    /\ TotalLines(s_dialogueHistory') <= MaxBacklog
    /\ UNCHANGED << hostVars, setupDone, trackerVars >>

\* ------------------------------------------------------------ persistence
\* The JSON library is not part of the plugin: a JSON value is a record with
\* its kind, and a JSON text is the document json::parse makes of it, or a
\* text that json::parse rejects.
JsonNull == [kind |-> "null"]
JsonString(s) == [kind |-> "string", value |-> s]
JsonNumber(n) == [kind |-> "number", value |-> n]
JsonArray(items) == [kind |-> "array", items |-> items]
\* the members of an object are kept in the order of their keys (std::map)
JsonObject(members) == [kind |-> "object", members |-> members]
\* json::dump
dump(j) == [wellFormed |-> TRUE, document |-> j]
UnparseableText == [wellFormed |-> FALSE, document |-> JsonNull]

\* the characters of the keys of the model, in the order of their codes
AsciiOrder == " 0123456789x"
CharCode(c) == CHOOSE i \in 1..Len(AsciiOrder) : CharAt(AsciiOrder, i) = c
\* std::string operator<
RECURSIVE StringLess(_, _)
StringLess(a, b) ==
    IF Len(b) = 0 THEN FALSE
    ELSE IF Len(a) = 0 THEN TRUE
    ELSE IF CharAt(a, 1) # CharAt(b, 1) THEN CharCode(CharAt(a, 1)) < CharCode(CharAt(b, 1))
    ELSE StringLess(SubSeq(a, 2, Len(a)), SubSeq(b, 2, Len(b)))

\* RE::FormID is a 32-bit number; the model writes it with eight hex digits
HexDigits == "0123456789ABCDEF"
DecimalDigits == "0123456789"
DigitValue(digits, c) == (CHOOSE i \in 1..Len(digits) : CharAt(digits, i) = c) - 1
IsDigit(c) == \E i \in 1..Len(DecimalDigits) : CharAt(DecimalDigits, i) = c

RECURSIVE NumberOf(_, _, _)
NumberOf(digits, text, value) ==
    IF Len(text) = 0 THEN value
    ELSE NumberOf(digits, SubSeq(text, 2, Len(text)),
                  value * Len(digits) + DigitValue(digits, CharAt(text, 1)))

FormIDValue(formID) == NumberOf(HexDigits, formID, 0)

RECURSIVE HexText(_, _)
HexText(n, width) ==
    IF width = 0 THEN ""
    ELSE HexText(n \div 16, width - 1) \o CharAt(HexDigits, (n % 16) + 1)

FormIDOf(n) == HexText(n, 8)

\* std::to_string(unsigned)
RECURSIVE to_string(_)
to_string(n) ==
    IF n < 10 THEN CharAt(DecimalDigits, n + 1)
    ELSE to_string(n \div 10) \o CharAt(DecimalDigits, (n % 10) + 1)

RECURSIVE SkipSpaces(_)
SkipSpaces(text) ==
    IF Len(text) # 0 /\ CharAt(text, 1) = " " THEN SkipSpaces(SubSeq(text, 2, Len(text)))
    ELSE text

RECURSIVE LeadingDigits(_)
LeadingDigits(text) ==
    IF Len(text) # 0 /\ IsDigit(CharAt(text, 1))
    THEN CharAt(text, 1) \o LeadingDigits(SubSeq(text, 2, Len(text)))
    ELSE ""

\* std::stoul, base 10: leading spaces are skipped, what follows the digits
\* is ignored, and no digits or a number out of the range of unsigned long
\* throw. The keys of the model carry no sign, and a number of ten digits or
\* more, which the integers of the model do not hold, counts as out of range.
stoul(text) ==
    LET digits == LeadingDigits(SkipSpaces(text))
    IN  IF Len(digits) = 0 \/ Len(digits) > 9 THEN [threw |-> TRUE, value |-> 0]
        ELSE [threw |-> FALSE, value |-> NumberOf(DecimalDigits, digits, 0)]

\* Hooks::to_json: the names of the exchange are not written
to_json(line) ==
    JsonObject(<< <<"gameTimeHours", JsonNumber(line.gameTimeHours)>>,
                  <<"npcResponse", JsonString(line.npcLine)>>,
                  <<"playerQuery", JsonString(line.playerLine)>> >>)

\* json(std::vector<DialogueLine>)
LinesToJson(lines) == JsonArray([i \in 1..Len(lines) |-> to_json(lines[i])])

\* json::at(key): the value, or nothing when at() throws
at(j, key) ==
    IF j.kind # "object" THEN <<>>
    ELSE LET found == SelectSeq(j.members, LAMBDA member : member[1] = key)
         IN  IF found = <<>> THEN <<>> ELSE <<found[1][2]>>

\* get_to of a member into a field of the given kind: thrown or the value
HasKind(member, kind) == member # <<>> /\ member[1].kind = kind

\* fault variant of from_json: the time of the exchange is not read
from_json_NoTimestamp(j) ==
    LET playerQuery == at(j, "playerQuery")
        npcResponse == at(j, "npcResponse")
        gameTimeHours == at(j, "gameTimeHours")
    IN  IF /\ HasKind(playerQuery, "string")
           /\ HasKind(npcResponse, "string")
           /\ HasKind(gameTimeHours, "number")
        THEN [ threw |-> FALSE,
               line |-> [ playerLine |-> playerQuery[1].value, playerName |-> "",
                          npcLine |-> npcResponse[1].value, npcName |-> "",
                          gameTimeHours |-> 0 ] ]
        ELSE [ threw |-> TRUE,
               line |-> [ playerLine |-> "", playerName |-> "", npcLine |-> "",
                          npcName |-> "", gameTimeHours |-> 0 ] ]

\* Hooks::from_json into a default-constructed DialogueLine
from_json(j) ==
    LET playerQuery == at(j, "playerQuery")
        npcResponse == at(j, "npcResponse")
        gameTimeHours == at(j, "gameTimeHours")
    IN  IF /\ HasKind(playerQuery, "string")
           /\ HasKind(npcResponse, "string")
           /\ HasKind(gameTimeHours, "number")
        THEN [ threw |-> FALSE,
               line |-> [ playerLine |-> playerQuery[1].value, playerName |-> "",
                          npcLine |-> npcResponse[1].value, npcName |-> "",
                          gameTimeHours |-> gameTimeHours[1].value ] ]
        ELSE [ threw |-> TRUE,
               line |-> [ playerLine |-> "", playerName |-> "", npcLine |-> "",
                          npcName |-> "", gameTimeHours |-> 0 ] ]

\* fault variant of GetDialogueLines: the array is read back to front
GetDialogueLines_Reversed(j) ==
    IF j.kind # "array" THEN [threw |-> TRUE, lines |-> <<>>]
    ELSE LET read == [i \in 1..Len(j.items) |-> from_json(j.items[Len(j.items) + 1 - i])]
         IN  IF \E i \in 1..Len(read) : read[i].threw THEN [threw |-> TRUE, lines |-> <<>>]
             ELSE [threw |-> FALSE, lines |-> [i \in 1..Len(read) |-> read[i].line]]

\* json::get<std::vector<Hooks::DialogueLine>>
GetDialogueLines(j) ==
    IF j.kind # "array" THEN [threw |-> TRUE, lines |-> <<>>]
    ELSE LET read == [i \in 1..Len(j.items) |-> from_json(j.items[i])]
         IN  IF \E i \in 1..Len(read) : read[i].threw THEN [threw |-> TRUE, lines |-> <<>>]
             ELSE [threw |-> FALSE, lines |-> [i \in 1..Len(read) |-> read[i].line]]

\* the keys of the history as the JSON object orders them
RECURSIVE SortedKeys(_)
SortedKeys(keys) ==
    IF keys = {} THEN <<>>
    ELSE LET first == CHOOSE k \in keys : \A other \in keys \ {k} : StringLess(k, other)
         IN  <<first>> \o SortedKeys(keys \ {first})

\* SerializeDialogueHistoryToJSON
SerializeDialogueHistoryToJSON(history) ==
    IF DOMAIN history = {} THEN dump(JsonNull)
    ELSE LET keyOf == [formID \in DOMAIN history |-> to_string(FormIDValue(formID))]
             keys == SortedKeys({keyOf[formID] : formID \in DOMAIN history})
             formIDOfKey(key) == CHOOSE formID \in DOMAIN history : keyOf[formID] = key
         IN  dump(JsonObject([i \in 1..Len(keys) |->
                                  <<keys[i], LinesToJson(history[formIDOfKey(keys[i])])>>]))

\* s_dialogueHistory.emplace: an entry that exists is kept
emplace(history, formID, lines) ==
    IF formID \in DOMAIN history THEN history
    ELSE [k \in DOMAIN history \cup {formID} |-> IF k = formID THEN lines ELSE history[k]]

\* the loop of DeserializeDialogueHistoryFromJSON over the members of the object
RECURSIVE EmplaceMembers(_, _)
EmplaceMembers(members, history) ==
    IF members = <<>> THEN [history |-> history, ok |-> TRUE]
    ELSE LET formID == stoul(Head(members)[1])
             dialogueLines == GetDialogueLines(Head(members)[2])
         IN  IF formID.threw \/ dialogueLines.threw THEN [history |-> history, ok |-> FALSE]
             ELSE EmplaceMembers(Tail(members),
                                 emplace(history, FormIDOf(formID.value), dialogueLines.lines))

\* fault variant of DeserializeDialogueHistoryFromJSON: the history is not
\* cleared before it is filled
DeserializeDialogueHistoryFromJSON_Merges(history, jsonString) ==
    IF ~jsonString.wellFormed THEN [history |-> history, ok |-> FALSE]
    ELSE LET j == jsonString.document
         IN  IF j.kind = "object" THEN EmplaceMembers(j.members, history)
             ELSE IF j.kind = "null" \/ (j.kind = "array" /\ j.items = <<>>)
             THEN [history |-> history, ok |-> TRUE]
             ELSE [history |-> history, ok |-> FALSE]

\* DeserializeDialogueHistoryFromJSON: the history afterwards and the result.
\* json::parse throws before the history is touched; an exception of the loop
\* (stoul, at, get_to, key() of an iterator that is not an object's) leaves
\* the cleared history with the members emplaced until then.
DeserializeDialogueHistoryFromJSON(history, jsonString) ==
    IF ~jsonString.wellFormed THEN [history |-> history, ok |-> FALSE]
    ELSE LET j == jsonString.document
         IN  IF j.kind = "object" THEN EmplaceMembers(j.members, EmptyHistory)
             ELSE IF j.kind = "null" \/ (j.kind = "array" /\ j.items = <<>>)
             THEN [history |-> EmptyHistory, ok |-> TRUE]
             ELSE [history |-> EmptyHistory, ok |-> FALSE]

\* a record of the co-save: its type and version, how many of the two writes
\* of MySaveCallback reached it (the length, the text), and the text
Record(type, version, writes, jsonString) ==
    [type |-> type, version |-> version, writes |-> writes, jsonString |-> jsonString]

\* MySaveCallback: OpenRecord and WriteRecordData can fail
MySaveCallback(opened, written) ==
    /\ setupDone
    /\ coSave' = IF ~opened THEN <<>>
                 ELSE <<Record("HIST", 1, IF written THEN 2 ELSE 0,
                               SerializeDialogueHistoryToJSON(s_dialogueHistory))>>
    /\ op' = [name |-> "MySaveCallback", call |-> <<>>]
    /\ sent' = <<>>
    /\ UNCHANGED << config, playerBaseName, hoursPassed, formListExists, scriptAddedTempForms,
                    setupDone, trackerVars, s_dialogueHistory, s_lastPlayerTopicText >>

\* MyLoadCallback reads the text of the record: its type is 'HIST' and both
\* reads return what they ask for
ReadsRecord(record) == record.type = "HIST" /\ record.writes = 2

\* the loop of MyLoadCallback over the records
RECURSIVE LoadRecords(_, _)
LoadRecords(records, history) ==
    IF records = <<>> THEN history
    ELSE IF ~ReadsRecord(Head(records)) THEN LoadRecords(Tail(records), history)
    ELSE LoadRecords(Tail(records),
                     DeserializeDialogueHistoryFromJSON(history, Head(records).jsonString).history)

\* MyLoadCallback. SKSE calls it with the records of the co-save of the game
\* being loaded, right after the revert callback.
MyLoadCallback(records) ==
    /\ setupDone
    /\ op.name = "MyRevertCallback"
    /\ s_dialogueHistory' = LoadRecords(records, s_dialogueHistory)
    /\ op' = [name |-> "MyLoadCallback", call |-> <<records>>]
    /\ sent' = <<>>
    /\ UNCHANGED << hostVars, setupDone, trackerVars, s_lastPlayerTopicText >>

\* ------------------------------------------------------- the specification
\* the tracker without the co-save: the drain records are not kept
Next ==
    \/ \E formID \in Actors : RosterAddForm(formID) /\ UNCHANGED << alreadyDrained, undelivered >>
    \/ \E formID \in Actors : RosterRemoveAddedForm(formID) /\ UNCHANGED << alreadyDrained, undelivered >>
    \/ \E dataHandler \in {nullptr, "TESDataHandler"} :
           Setup(dataHandler) /\ UNCHANGED << alreadyDrained, undelivered >>
    \/ \E call \in HookCalls : thunk(call[1], call[2]) /\ UNCHANGED << alreadyDrained, undelivered >>
    \/ notifyConversationStart /\ UNCHANGED << alreadyDrained, undelivered >>
    \/ notifyConversationEnd /\ UNCHANGED << alreadyDrained, undelivered >>
    \/ \E actors \in SUBSET Actors : notifyActorAdded(actors) /\ UNCHANGED << alreadyDrained, undelivered >>
    \/ \E actors \in SUBSET Actors : notifyActorRemoved(actors) /\ UNCHANGED << alreadyDrained, undelivered >>
    \/ MyRevertCallback /\ UNCHANGED << alreadyDrained, undelivered >>

Spec == Init /\ [][Next]_vars

\* ----------------------------------------- the tracker with the co-save
\* what a drained or appended exchange is known by: its key, texts and time
ExchangeContent(formID, line) ==
    [ key |-> formID, playerLine |-> line.playerLine, npcLine |-> line.npcLine,
      gameTimeHours |-> line.gameTimeHours ]

ContentsOf(history, keys) ==
    UNION { {ExchangeContent(k, history[k][i]) : i \in 1..Len(history[k])} : k \in keys }

\* the hook, with the record of drained exchanges: an exchange that is
\* appended is a new one
TrackedThunk(a_speaker, dialogue) ==
    /\ thunk(a_speaker, dialogue)
    /\ alreadyDrained' =
           IF s_dialogueHistory' # s_dialogueHistory
           THEN alreadyDrained \
                    {ExchangeContent(a_speaker, BuildExchange(a_speaker, Deref(dialogue),
                                                              playerBaseName, hoursPassed))}
           ELSE alreadyDrained
    /\ undelivered' =
           IF s_dialogueHistory' # s_dialogueHistory
           THEN undelivered \
                    {ExchangeContent(a_speaker, BuildExchange(a_speaker, Deref(dialogue),
                                                              playerBaseName, hoursPassed))}
           ELSE undelivered

\* the conversation start, with the record of drained exchanges; found is
\* what FindBoundObject returns to the AddMantellaEvent calls of the drain
TrackedConversationStart(found) ==
    /\ notifyConversationStart
    /\ alreadyDrained' =
           alreadyDrained \cup
               ContentsOf(s_dialogueHistory, DOMAIN s_dialogueHistory \ DOMAIN s_dialogueHistory')
    /\ undelivered' =
           IF \E i \in 1..Len(sent') : AddMantellaEvent(sent'[i], found) = <<>>
           THEN undelivered \cup
                    ContentsOf(s_dialogueHistory,
                               DOMAIN s_dialogueHistory \ DOMAIN s_dialogueHistory')
           ELSE undelivered

\* the calls of the hook in the games that are saved and loaded
PersistCalls ==
    { <<Lydia, Dialogue("Work?", <<"Do you need something?">>, "repeatable")>>,
      <<Lydia, Dialogue("Hello", <<"Do you need something?">>, "kSayOnce")>> }

\* the backlog of a game played earlier: one exchange of the actor
EarlierBacklog(actor) ==
    [ k \in {actor} |->
        << BuildExchange(actor, Deref(Dialogue("Work?", <<"Do you need something?">>,
                                               "repeatable")), "", 12) >> ]
EarlierSave(actor) == SerializeDialogueHistoryToJSON(EarlierBacklog(actor))

\* texts that are JSON but not what SerializeDialogueHistoryToJSON writes
SecondRecordLacksFields ==
    dump(JsonObject(<< <<"666772", LinesToJson(EarlierBacklog(Lydia)[Lydia])>>,
                       <<"80831", JsonArray(<< JsonObject(<< <<"playerQuery",
                                                               JsonString("Work?")>> >>) >>)>> >>))
KeyWithoutLines == dump(JsonObject(<< <<"666772", JsonArray(<<>>)>> >>))
KeyNotANumber == dump(JsonObject(<< <<"x", LinesToJson(EarlierBacklog(Lydia)[Lydia])>> >>))
NotAnObject == dump(JsonArray(<<JsonNumber(1)>>))

\* the co-saves a game can be loaded from, besides the one last written
CoSaveFiles ==
    { <<>>,
      <<Record("HIST", 1, 2, EarlierSave(Nazeem))>>,
      <<Record("HIST", 2, 2, EarlierSave(Nazeem))>>,
      <<Record("CONF", 1, 2, EarlierSave(Nazeem))>>,
      <<Record("HIST", 1, 2, UnparseableText)>>,
      <<Record("HIST", 1, 2, SecondRecordLacksFields)>>,
      <<Record("HIST", 1, 2, KeyWithoutLines)>>,
      <<Record("HIST", 1, 2, KeyNotANumber)>>,
      <<Record("HIST", 1, 2, NotAnObject)>>,
      <<Record("HIST", 1, 2, EarlierSave(Nazeem)), Record("HIST", 1, 2, EarlierSave(Lydia))>>,
      <<Record("HIST", 1, 2, EarlierSave(Nazeem)), Record("HIST", 1, 2, UnparseableText)>> }

\* the plugin in a game with Mantella.esp, thirty game hours in
PersistInit ==
    /\ config = DefaultConfig
    /\ playerBaseName = ""
    /\ formListExists = TRUE
    /\ hoursPassed = 30
    /\ scriptAddedTempForms = null
    /\ setupDone = FALSE
    /\ aParticipants = nullptr
    /\ DialogueTrackerHasError = FALSE
    /\ s_dialogueHistory = EmptyHistory
    /\ s_lastParticipants = {}
    /\ s_lastPlayerTopicText = ""
    /\ coSave = <<>>
    /\ alreadyDrained = {}
    /\ undelivered = {}
    /\ sent = <<>>
    /\ op = [name |-> "SKSEPluginLoad", call |-> <<>>]

PersistNext ==
    \/ Setup("TESDataHandler") /\ UNCHANGED << alreadyDrained, undelivered >>
    \/ RosterAddForm(Lydia) /\ UNCHANGED << alreadyDrained, undelivered >>
    \/ \E call \in PersistCalls : TrackedThunk(call[1], call[2])
    \/ \E found \in BOOLEAN : TrackedConversationStart(found)
    \/ \E opened, written \in BOOLEAN :
           MySaveCallback(opened, written) /\ UNCHANGED << alreadyDrained, undelivered >>
    \/ MyRevertCallback /\ UNCHANGED << alreadyDrained, undelivered >>
    \/ \E records \in CoSaveFiles \cup {coSave} :
           MyLoadCallback(records) /\ UNCHANGED << alreadyDrained, undelivered >>

PersistSpec == PersistInit /\ [][PersistNext]_vars

\* ------------------------------------------------ vocabulary of the claims
\* the roster as the host keeps it
RosterSeq == IF scriptAddedTempForms = null THEN <<>> ELSE Deref(scriptAddedTempForms)
RosterMembers == {RosterSeq[i] : i \in 1..Len(RosterSeq)}
\* a conversation is active: the tracker found the roster and it has an entry
ConversationActive ==
    /\ ~DialogueTrackerHasError
    /\ aParticipants # nullptr
    /\ RosterMembers # {}

BacklogOf(history, formID) == IF formID \in DOMAIN history THEN history[formID] ELSE <<>>

\* the step is a call of the hook (op' holds its speaker and dialogue)
HookStep == op'.name = "thunk"
SpeakerOf(o) == o.call[1]
DialogueOf(o) == o.call[2]
TopicTextOf(o) == Deref(DialogueOf(o)).topicText
NpcLineOf(o) == BuildNpcLine(Deref(DialogueOf(o)).responses, "")
\* the hook call o is accepted in the current state: not dropped, not filtered
AcceptedCall(o) ==
    ~ThunkReturnsEarly(SpeakerOf(o), DialogueOf(o), config, s_lastPlayerTopicText)
ExchangeOfCall(o) ==
    BuildExchange(SpeakerOf(o), Deref(DialogueOf(o)), playerBaseName, hoursPassed)
\* the step sends nothing and appends nothing
NothingSentNothingAppended == sent' = <<>> /\ s_dialogueHistory' = s_dialogueHistory

\* C1: an accepted exchange of character K that arrives while the roster is
\* empty and the tracker is not in error state is appended to the end of K's
\* backlog sequence, and the call sends nothing.
C1_BufferedWhenInactive ==
    [][ (HookStep /\ AcceptedCall(op') /\ RosterMembers = {} /\ ~DialogueTrackerHasError)
        => /\ SpeakerOf(op') \in DOMAIN s_dialogueHistory'
           /\ s_dialogueHistory'[SpeakerOf(op')] =
                  Append(BacklogOf(s_dialogueHistory, SpeakerOf(op')), ExchangeOfCall(op'))
           /\ sent' = <<>> ]_vars

\* Lydia's second exchange has been buffered with no conversation active
C1_Witness ==
    /\ op.name = "thunk" /\ SpeakerOf(op) = Lydia
    /\ RosterMembers = {} /\ ~DialogueTrackerHasError
    /\ Lydia \in DOMAIN s_dialogueHistory
    /\ Len(s_dialogueHistory[Lydia]) = 2
    /\ s_dialogueHistory[Lydia][2].playerLine = TopicTextOf(op)
    /\ s_dialogueHistory[Lydia][2].npcLine = NpcLineOf(op)
    /\ s_dialogueHistory[Lydia][1].playerLine # TopicTextOf(op)
    /\ sent = <<>>

\* C2: an accepted exchange that arrives while a conversation is active and
\* whose speaker is in the roster makes the call send exactly one message, the
\* one for that exchange, and leaves the whole backlog unchanged.
C2_ParticipantSentNotStored ==
    [][ (HookStep /\ AcceptedCall(op') /\ ConversationActive
           /\ SpeakerOf(op') \in RosterMembers)
        => /\ sent' = <<AddDialogueExchangeAsync(ExchangeOfCall(op'))>>
           /\ s_dialogueHistory' = s_dialogueHistory ]_vars

\* Lydia, a participant, has spoken and her exchange went out
C2_Witness ==
    /\ op.name = "thunk" /\ SpeakerOf(op) = Lydia
    /\ ConversationActive /\ Lydia \in RosterMembers
    /\ sent = <<"Player: Work?; Lydia: Do you need something?">>
    /\ Lydia \notin DOMAIN s_dialogueHistory

\* C3: an accepted exchange of character A that arrives while a conversation
\* is active and A is not in the roster is sent at once and is appended to A's
\* backlog, so that the backlog has the key A afterwards.
C3_OutsiderSentAndStored ==
    [][ (HookStep /\ AcceptedCall(op') /\ ConversationActive
           /\ SpeakerOf(op') \notin RosterMembers)
        => /\ sent' = <<AddDialogueExchangeAsync(ExchangeOfCall(op'))>>
           /\ SpeakerOf(op') \in DOMAIN s_dialogueHistory'
           /\ s_dialogueHistory'[SpeakerOf(op')] =
                  Append(BacklogOf(s_dialogueHistory, SpeakerOf(op')), ExchangeOfCall(op')) ]_vars

\* Lydia has spoken during Nazeem's conversation
C3_Witness ==
    /\ op.name = "thunk" /\ SpeakerOf(op) = Lydia
    /\ ConversationActive /\ RosterMembers = {Nazeem}
    /\ sent = <<"Player: Work?; Lydia: Do you need something?">>
    /\ Lydia \in DOMAIN s_dialogueHistory
    /\ s_dialogueHistory[Lydia][Len(s_dialogueHistory[Lydia])].playerLine = "Work?"

\* the first position at or after from where piece occurs in text, 0 if none
OccursAt(text, piece, from) ==
    LET hits == {p \in from..(Len(text) - Len(piece) + 1) :
                     SubSeq(text, p, p + Len(piece) - 1) = piece}
    IN  IF hits = {} THEN 0 ELSE CHOOSE p \in hits : \A q \in hits : p <= q

\* the pieces occur in text one after the other, without overlap
RECURSIVE ContainsInOrder(_, _, _)
ContainsInOrder(text, pieces, from) ==
    IF pieces = <<>> THEN TRUE
    ELSE LET p == OccursAt(text, Head(pieces), from)
         IN  IF p = 0 THEN FALSE
             ELSE ContainsInOrder(text, Tail(pieces), p + Len(Head(pieces)))

\* names and texts of buffered exchanges, in capture order
RECURSIVE PiecesOf(_)
PiecesOf(lines) ==
    IF lines = <<>> THEN <<>>
    ELSE << Head(lines).playerName, Head(lines).playerLine,
            Head(lines).npcName, Head(lines).npcLine >> \o PiecesOf(Tail(lines))

\* the roster members that have buffered exchanges, in roster order
DrainedKeys ==
    SelectSeq(RosterSeq, LAMBDA k : Len(BacklogOf(s_dialogueHistory, k)) > 0)

\* the step is a conversation-start notification
StartStep == op'.name = "notifyConversationStart"

\* C4: on a conversation-start notification, every roster member A whose
\* backlog holds exchanges e1..en gets exactly one message, which contains the
\* names and texts of e1..en in capture order, and afterwards no roster member
\* is a key of the backlog.
C4_DrainedOnStart ==
    [][ StartStep
        => /\ Len(sent') = Len(DrainedKeys)
           /\ \A i \in 1..Len(DrainedKeys) :
                  ContainsInOrder(sent'[i], PiecesOf(s_dialogueHistory[DrainedKeys[i]]), 1)
           /\ \A k \in RosterMembers : k \notin DOMAIN s_dialogueHistory' ]_vars

\* Lydia's two buffered exchanges have gone out in one message on the start
C4_Witness ==
    /\ op.name = "notifyConversationStart"
    /\ Lydia \in RosterMembers
    /\ Lydia \notin DOMAIN s_dialogueHistory
    /\ Len(sent) = 1
    /\ ContainsInOrder(sent[1], <<"Work?", "Lydia", "Do you need something?",
                                  "Hello", "Lydia", "Do you need something?">>, 1)

\* the payload format as the specification words it
SpecLineText(line) ==
    line.playerName \o ": " \o line.playerLine \o "; " \o line.npcName \o ": "
        \o line.npcLine \o " "

RECURSIVE SpecConcatenation(_)
SpecConcatenation(lines) ==
    IF lines = <<>> THEN ""
    ELSE SpecLineText(Head(lines)) \o SpecConcatenation(Tail(lines))

IsWhitespace(c) == c \in {" ", "\n", "\t"}

RECURSIVE TrimTrailingWhitespace(_)
TrimTrailingWhitespace(text) ==
    IF Len(text) # 0 /\ IsWhitespace(CharAt(text, Len(text)))
    THEN TrimTrailingWhitespace(SubSeq(text, 1, Len(text) - 1))
    ELSE text

\* C5 as stated: the drain payload of a key is the concatenation of
\* "{speakerName}: {speakerQuery}; {responseName}: {responseText} " over its
\* exchanges, with the trailing whitespace trimmed.
C5_PayloadAsStated ==
    [][ StartStep
        => /\ Len(sent') = Len(DrainedKeys)
           /\ \A i \in 1..Len(DrainedKeys) :
                  sent'[i] = TrimTrailingWhitespace(
                                 SpecConcatenation(s_dialogueHistory[DrainedKeys[i]])) ]_vars

\* the payload format with the line break after the semicolon
BrokenLineText(line) ==
    line.playerName \o ": " \o line.playerLine \o ";" \o "\n" \o " " \o line.npcName
        \o ": " \o line.npcLine \o " "

RECURSIVE BrokenConcatenation(_)
BrokenConcatenation(lines) ==
    IF lines = <<>> THEN ""
    ELSE BrokenLineText(Head(lines)) \o BrokenConcatenation(Tail(lines))

\* the text without its last character
DropLast(text) == SubSeq(text, 1, Len(text) - 1)

\* C5, amended: the drain payload of a key is the concatenation of
\* "{speakerName}: {speakerQuery};\n {responseName}: {responseText} " over its
\* exchanges in order, with exactly the one final space removed.
C5_PayloadFormat ==
    [][ StartStep
        => /\ Len(sent') = Len(DrainedKeys)
           /\ \A i \in 1..Len(DrainedKeys) :
                  sent'[i] = DropLast(BrokenConcatenation(
                                          s_dialogueHistory[DrainedKeys[i]])) ]_vars

\* two buffered exchanges of Lydia have been drained into one payload
C5_Witness ==
    /\ op.name = "notifyConversationStart"
    /\ sent = << "Player: Work?;\n Lydia: Do you need something? "
                     \o "Player: Hello;\n Lydia: Do you need something?" >>

\* the previous step was a call of the hook with a dialogue
PreviousHookCall == op.name = "thunk" /\ DialogueOf(op) # null
\* the step is a call of the hook with the query of the previous call
SameQueryAgain ==
    /\ PreviousHookCall
    /\ HookStep /\ DialogueOf(op') # null
    /\ TopicTextOf(op') = TopicTextOf(op)

\* C6 as stated: of two successive calls of the hook with the same query the
\* second sends nothing and appends nothing, whether or not the first call
\* was itself suppressed or dropped.
C6_SecondAlwaysSuppressed ==
    [][ SameQueryAgain => NothingSentNothingAppended ]_vars

\* C6, amended: of two successive calls of the hook with the same query the
\* second sends nothing and appends nothing, provided that query is the most
\* recently processed one after the first call (the first call was accepted,
\* or was made while the query already was the most recently processed one).
C6_DuplicateSuppressed ==
    [][ (SameQueryAgain /\ s_lastPlayerTopicText = TopicTextOf(op))
        => NothingSentNothingAppended ]_vars

\* "Work?" was buffered with one response; the repeated query with another
\* response, which no other rule of this configuration stops, left no trace
C6_Witness ==
    /\ op.name = "thunk" /\ SpeakerOf(op) = Lydia
    /\ config = FiltersOffConfig
    /\ DialogueOf(op) = Dialogue("Work?", <<"Go away.", "Now. ">>, "repeatable")
    /\ s_lastPlayerTopicText = "Work?"
    /\ RosterMembers = {} /\ ~DialogueTrackerHasError
    /\ Lydia \in DOMAIN s_dialogueHistory
    /\ Len(s_dialogueHistory[Lydia]) = 1
    /\ s_dialogueHistory[Lydia][1].playerLine = "Work?"
    /\ s_dialogueHistory[Lydia][1].npcLine = "Do you need something?"
    /\ sent = <<>>

\* C7: a call of the hook that is accepted sets the most recently processed
\* query to the query of the call; a call that is dropped or suppressed, and
\* every other operation, leaves it unchanged.
C7_LastQueryUpdatedOnAccept ==
    [][ s_lastPlayerTopicText' =
            IF HookStep /\ AcceptedCall(op') THEN TopicTextOf(op')
            ELSE s_lastPlayerTopicText ]_vars

\* a blacklisted query arrived after "Work?" was accepted, and "Work?" is
\* still the most recently processed query
C7_Witness ==
    /\ op.name = "thunk" /\ SpeakerOf(op) = Lydia
    /\ DialogueOf(op) # null /\ TopicTextOf(op) = "Stage1Hello"
    /\ s_lastPlayerTopicText = "Work?"

\* the exchange of the hook call o matches a blacklist
Blacklisted(o) ==
    \/ Contains(config.NPCLineBlacklist, NpcLineOf(o))
    \/ Contains(config.PlayerLineBlacklist, TopicTextOf(o))

\* C8: a call of the hook whose response text equals an NPC blacklist entry,
\* or whose query equals a player blacklist entry, sends nothing and appends
\* nothing, in every conversation state.
C8_BlacklistSuppresses ==
    [][ (HookStep /\ DialogueOf(op') # null /\ Blacklisted(op'))
        => NothingSentNothingAppended ]_vars

\* Lydia, a participant of the active conversation, said "Farewell" with the
\* short-reply rule switched off, and nothing went out
C8_Witness ==
    /\ op.name = "thunk" /\ SpeakerOf(op) = Lydia
    /\ config = FiltersOffConfig
    /\ DialogueOf(op) # null /\ NpcLineOf(op) = "Farewell"
    /\ TopicTextOf(op) # s_lastPlayerTopicText
    /\ ConversationActive /\ Lydia \in RosterMembers
    /\ sent = <<>>
    /\ s_dialogueHistory = EmptyHistory

\* the number of words of text: its maximal runs of non-whitespace characters
WordCount(text) ==
    Cardinality({i \in 1..Len(text) :
                    /\ ~IsWhitespace(CharAt(text, i))
                    /\ (i = 1 \/ IsWhitespace(CharAt(text, i - 1)))})

\* the hook call o gets as far as the short-reply rule: it is not dropped
\* before the filter and none of the rules 1-4 matches it
ReachesShortReplyRule(o) ==
    /\ ~ReturnsBeforeFilter(SpeakerOf(o), DialogueOf(o), config)
    /\ TopicTextOf(o) # s_lastPlayerTopicText
    /\ ~Blacklisted(o)
    /\ ~( /\ Deref(DialogueOf(o)).parentTopicInfo \notin {nullptr, "kSayOnce"}
          /\ config.FilterNonUniqueGreetings
          /\ IsGreeting(TopicTextOf(o)) )

\* C9: an exchange that none of the rules 1-4 matches is suppressed iff
\* short-reply filtering is enabled and the word count of its response is
\* strictly less than the configured minimum.
C9_ShortReplyByWordCount ==
    [][ (HookStep /\ ReachesShortReplyRule(op'))
        => (~AcceptedCall(op')
               <=> ( /\ config.FilterShortReplies
                     /\ WordCount(NpcLineOf(op')) < config.FilterShortRepliesMinWordCount )) ]_vars

\* every content the roster array can have
RosterContents ==
    {null} \cup {PointerTo(forms) : forms \in UNION {[1..n -> Actors] : n \in 0..2}}

\* C10: a Setup that does not find the roster sets the error flag, no
\* operation clears the flag, and while it is set IsConversationRunning and
\* IsActorInConversation are false for every actor and every roster content.
C10_ErrorIsPermanent ==
    [][ /\ (op'.name = "Setup" /\ ~formListExists) => DialogueTrackerHasError'
        /\ DialogueTrackerHasError => DialogueTrackerHasError'
        /\ DialogueTrackerHasError' =>
               \A forms \in RosterContents :
                   /\ ~IsConversationRunning(aParticipants', DialogueTrackerHasError', forms)
                   /\ \A k \in Actors \cup {nullptr} :
                          ~IsActorInConversation(k, aParticipants',
                                                 DialogueTrackerHasError', forms) ]_vars

\* Setup has failed, and Lydia's exchange, accepted afterwards, was neither
\* sent nor buffered
C10_Witness ==
    /\ DialogueTrackerHasError
    /\ op.name = "thunk" /\ SpeakerOf(op) = Lydia
    /\ DialogueOf(op) # null /\ TopicTextOf(op) = "Work?"
    /\ s_lastPlayerTopicText = "Work?"
    /\ s_dialogueHistory = EmptyHistory
    /\ sent = <<>>

\* C11 as stated: after a Setup failure an accepted exchange is appended to
\* the speaker's backlog, and nothing is sent.
C11_BufferedAfterSetupFailure ==
    [][ (HookStep /\ AcceptedCall(op') /\ DialogueTrackerHasError)
        => /\ SpeakerOf(op') \in DOMAIN s_dialogueHistory'
           /\ s_dialogueHistory'[SpeakerOf(op')] =
                  Append(BacklogOf(s_dialogueHistory, SpeakerOf(op')), ExchangeOfCall(op'))
           /\ sent' = <<>> ]_vars

\* C11, amended: after a Setup failure an accepted exchange is neither sent
\* nor appended: the backlog stays as it is, nothing is sent, and only the
\* most recently processed query is updated.
C11_DiscardedAfterSetupFailure ==
    [][ (HookStep /\ AcceptedCall(op') /\ DialogueTrackerHasError)
        => /\ NothingSentNothingAppended
           /\ s_lastPlayerTopicText' = TopicTextOf(op') ]_vars

\* Setup found no roster; Lydia's say-once greeting was accepted after it and
\* the backlog is still empty
C11_Witness ==
    /\ DialogueTrackerHasError /\ aParticipants = nullptr
    /\ op.name = "thunk" /\ SpeakerOf(op) = Lydia
    /\ DialogueOf(op) = Dialogue("Hello", <<"Do you need something?">>, "kSayOnce")
    /\ s_lastPlayerTopicText = "Hello"
    /\ s_dialogueHistory = EmptyHistory
    /\ sent = <<>>

\* C16: after MyRevertCallback the backlog is empty, with no key left,
\* whatever it held before.
C16_RevertEmptiesBacklog ==
    [][ op'.name = "MyRevertCallback"
        => /\ s_dialogueHistory' = EmptyHistory
           /\ Cardinality(DOMAIN s_dialogueHistory') = 0 ]_vars

\* the revert came after "Work?" had been accepted with no roster and no
\* error, that is after it had been buffered
C16_Witness ==
    /\ op.name = "MyRevertCallback"
    /\ s_lastPlayerTopicText = "Work?"
    /\ RosterMembers = {} /\ s_lastParticipants = {} /\ ~DialogueTrackerHasError
    /\ DOMAIN s_dialogueHistory = {}

\* the step is a participant-joined notification, for the actors of op'
JoinStep == op'.name = "notifyActorAdded"
JoinedActors(o) == o.call[1]

\* C17: on a participant-joined notification for K during a running
\* conversation, K's buffered exchanges are sent as one payload and K is no
\* longer a key of the backlog.
C17_DrainedOnJoin ==
    [][ (JoinStep /\ ConversationActive)
        => \A k \in JoinedActors(op') :
               Len(BacklogOf(s_dialogueHistory, k)) > 0
                   => /\ Contains(sent', PopTrailingSpace(
                                             ConcatenateLines(s_dialogueHistory[k])))
                      /\ k \notin DOMAIN s_dialogueHistory' ]_vars

\* C18: a conversation-end notification clears the transient participant set
\* and nothing else: the backlog is as before (nothing drained comes back),
\* and nothing is sent.
C18_EndLeavesBacklog ==
    [][ op'.name = "notifyConversationEnd"
        => /\ s_lastParticipants' = {}
           /\ s_dialogueHistory' = s_dialogueHistory
           /\ sent' = <<>>
           /\ UNCHANGED << aParticipants, DialogueTrackerHasError, s_lastPlayerTopicText >> ]_vars

\* the conversation with Lydia has ended: her drained key has not come back,
\* and the backlog of Nazeem, who was not part of it, is still there
C18_Witness ==
    /\ op.name = "notifyConversationEnd"
    /\ s_lastParticipants = {}
    /\ RosterMembers = {Lydia}
    /\ DOMAIN s_dialogueHistory = {Nazeem}
    /\ Len(s_dialogueHistory[Nazeem]) = 1

\* the steps of the co-save callbacks, and what they were called with
SaveStep == op'.name = "MySaveCallback"
LoadStep == op'.name = "MyLoadCallback"
LoadedRecords(o) == o.call[1]
\* the records of a co-save whose text the load callback gets to read
RecordsRead(records) == SelectSeq(records, ReadsRecord)
LastRecordRead(records) == RecordsRead(records)[Len(RecordsRead(records))]
\* the step has written a complete record
RecordWritten == SaveStep /\ coSave' # <<>> /\ coSave'[1].writes = 2

\* the two backlogs have the same keys and, key by key, the same exchanges in
\* the same order, compared by query text, response text and time
SameExchanges(decoded, original) ==
    /\ DOMAIN decoded = DOMAIN original
    /\ \A k \in DOMAIN original :
           /\ Len(decoded[k]) = Len(original[k])
           /\ \A i \in 1..Len(original[k]) :
                  /\ decoded[k][i].playerLine = original[k][i].playerLine
                  /\ decoded[k][i].npcLine = original[k][i].npcLine
                  /\ decoded[k][i].gameTimeHours = original[k][i].gameTimeHours

\* C12: what SerializeDialogueHistoryToJSON writes of a non-empty backlog,
\* DeserializeDialogueHistoryFromJSON reads back as a backlog with the same
\* keys and, for each key, the same exchanges in the same order with equal
\* query text, response text and time.
C12_RoundTrip ==
    [][ (RecordWritten /\ DOMAIN s_dialogueHistory # {})
        => LET decoded == DeserializeDialogueHistoryFromJSON(EmptyHistory,
                                                              coSave'[1].jsonString)
           IN  /\ decoded.ok
               /\ SameExchanges(decoded.history, s_dialogueHistory) ]_vars

\* the game saved with exchanges of Lydia and Nazeem has been loaded again:
\* both keys are back, with their texts and the time of the exchange
C12_Witness ==
    /\ op.name = "MyLoadCallback"
    /\ coSave # <<>> /\ LoadedRecords(op) = coSave
    /\ DOMAIN s_dialogueHistory = {Lydia, Nazeem}
    /\ Len(s_dialogueHistory[Lydia]) = 1 /\ Len(s_dialogueHistory[Nazeem]) = 1
    /\ s_dialogueHistory[Lydia][1].playerLine = "Work?"
    /\ s_dialogueHistory[Lydia][1].npcLine = "Do you need something?"
    /\ s_dialogueHistory[Lydia][1].gameTimeHours = 30
    /\ SerializeDialogueHistoryToJSON(s_dialogueHistory) = coSave[1].jsonString

\* C13: when the last text the load callback reads is malformed (json::parse
\* rejects it, or its records lack required fields), the backlog is empty
\* after the load.
C13_MalformedLeavesEmpty ==
    [][ ( /\ LoadStep /\ RecordsRead(LoadedRecords(op')) # <<>>
          /\ ~DeserializeDialogueHistoryFromJSON(
                  EmptyHistory, LastRecordRead(LoadedRecords(op')).jsonString).ok )
        => s_dialogueHistory' = EmptyHistory ]_vars

\* well-formed texts a co-save can hold, and the backlog each of them holds
WellFormedTexts == {EarlierSave(Nazeem), EarlierSave(Lydia), KeyWithoutLines}
BacklogOfText ==
    [ text \in WellFormedTexts |->
        DeserializeDialogueHistoryFromJSON(EmptyHistory, text).history ]

\* C14: a successful DeserializeDialogueHistoryFromJSON replaces the backlog:
\* the backlog afterwards is what the text holds, whatever the backlog was
\* before (every backlog the tracker arrives at is tried), and no key or
\* exchange of the backlog before survives a load.
C14_DecodeReplaces ==
    [][ /\ s_dialogueHistory' # s_dialogueHistory
           => \A text \in WellFormedTexts :
                  LET decoded == DeserializeDialogueHistoryFromJSON(s_dialogueHistory', text)
                  IN  decoded.ok /\ decoded.history = BacklogOfText[text]
        /\ ( /\ LoadStep /\ RecordsRead(LoadedRecords(op')) # <<>>
             /\ DeserializeDialogueHistoryFromJSON(
                    EmptyHistory, LastRecordRead(LoadedRecords(op')).jsonString).ok )
           => s_dialogueHistory' =
                  DeserializeDialogueHistoryFromJSON(
                      EmptyHistory, LastRecordRead(LoadedRecords(op')).jsonString).history ]_vars

\* a co-save with two records has been loaded: Nazeem's key, which the first
\* record put into the backlog, did not survive the second
C14_Witness ==
    /\ op.name = "MyLoadCallback"
    /\ LoadedRecords(op) = << Record("HIST", 1, 2, EarlierSave(Nazeem)),
                              Record("HIST", 1, 2, EarlierSave(Lydia)) >>
    /\ s_dialogueHistory = [ k \in {Lydia} |->
                               << [ playerLine |-> "Work?", playerName |-> "",
                                    npcLine |-> "Do you need something?", npcName |-> "",
                                    gameTimeHours |-> 12 ] >> ]

\* C15: a load from a co-save whose 'HIST' records all have a version other
\* than 1 leaves the backlog as it was.
C15_UnknownVersionRefused ==
    [][ ( /\ LoadStep
          /\ \A i \in 1..Len(LoadedRecords(op')) :
                 LoadedRecords(op')[i].type = "HIST" => LoadedRecords(op')[i].version # 1 )
        => s_dialogueHistory' = s_dialogueHistory ]_vars

\* C19: every key of the backlog maps to a non-empty sequence of exchanges.
C19_NoEmptySequence ==
    \A k \in DOMAIN s_dialogueHistory : Len(s_dialogueHistory[k]) > 0

\* C20: no exchange goes out in a drain payload twice: what a conversation
\* start drains has not been in a drain payload since it was appended.
C20_DrainedOnce ==
    [][ StartStep
        => ContentsOf(s_dialogueHistory, DOMAIN s_dialogueHistory \ DOMAIN s_dialogueHistory')
               \cap alreadyDrained = {} ]_vars

\* the exchanges the step takes out of the backlog
DrainedNow ==
    ContentsOf(s_dialogueHistory, DOMAIN s_dialogueHistory \ DOMAIN s_dialogueHistory')

\* C21: when AddMantellaEvent does not dispatch a drain payload, the drained
\* keys are removed from the backlog all the same, and the delivery is not
\* made up for: no later conversation start sends those exchanges again.
C21_FailedDeliveryNotRepeated ==
    [][ StartStep
        => /\ (DrainedNow # {} /\ DrainedNow \subseteq undelivered')
                  => \A k \in RosterMembers : k \notin DOMAIN s_dialogueHistory'
           /\ DrainedNow \cap undelivered = {} ]_vars

\* the step sends nothing, appends nothing and leaves the most recently
\* processed query as it is
Suppressed ==
    /\ NothingSentNothingAppended
    /\ s_lastPlayerTopicText' = s_lastPlayerTopicText

\* C22: with EnableVanillaDialogueTracking off, a call of the hook sends
\* nothing, appends nothing and leaves the most recently processed query
\* unchanged.
C22_TrackingOffDoesNothing ==
    [][ (HookStep /\ ~config.EnableVanillaDialogueTracking) => Suppressed ]_vars

\* tracking is switched off, and Lydia's "Work?", which no rule of the filter
\* stops, has left no trace
C22_Witness ==
    /\ op.name = "thunk" /\ SpeakerOf(op) = Lydia
    /\ ~config.EnableVanillaDialogueTracking
    /\ DialogueOf(op) = Dialogue("Work?", <<"Do you need something?">>, "repeatable")
    /\ ~DialogueTrackerHasError /\ RosterMembers = {Lydia}
    /\ s_lastPlayerTopicText = ""
    /\ s_dialogueHistory = EmptyHistory
    /\ sent = <<>>

\* the speaker of the hook call o is an actor whose display name is in
\* NPCNamesToIgnore
IgnoredName(o) ==
    /\ SpeakerOf(o) \in Actors
    /\ Contains(config.NPCNamesToIgnore, GetDisplayFullName(SpeakerOf(o)))

\* C23: a call of the hook for an actor whose display name is in
\* NPCNamesToIgnore sends nothing and appends nothing, whether no conversation
\* is running, or one is running with or without that actor.
C23_IgnoredNameNeverCaptured ==
    [][ (HookStep /\ IgnoredName(op')) => NothingSentNothingAppended ]_vars

\* Nazeem, whose name is ignored, is the participant of the running
\* conversation; his answer to "Work?" was neither sent nor buffered
C23_Witness ==
    /\ op.name = "thunk" /\ SpeakerOf(op) = Nazeem
    /\ config.NPCNamesToIgnore = <<"Nazeem">>
    /\ DialogueOf(op) = Dialogue("Work?", <<"Do you need something?">>, "repeatable")
    /\ s_lastPlayerTopicText # "Work?"
    /\ ConversationActive /\ RosterMembers = {Nazeem}
    /\ Nazeem \notin DOMAIN s_dialogueHistory
    /\ sent = <<>>

\* the step is a participant-left notification, for the actors of op'
LeftStep == op'.name = "notifyActorRemoved"
LeftActors(o) == o.call[1]

\* C24: a participant-left notification changes neither the backlog, nor the
\* participant set, nor the roster, nor the most recently processed query,
\* and sends nothing.
C24_LeftIsNoOp ==
    [][ LeftStep
        => /\ s_dialogueHistory' = s_dialogueHistory
           /\ s_lastParticipants' = s_lastParticipants
           /\ scriptAddedTempForms' = scriptAddedTempForms
           /\ s_lastPlayerTopicText' = s_lastPlayerTopicText
           /\ sent' = <<>> ]_vars

\* Lydia and Nazeem were reported as having left: Lydia is still a
\* participant and Nazeem's buffered exchange is still there
C24_Witness ==
    /\ op.name = "notifyActorRemoved" /\ LeftActors(op) = {Lydia, Nazeem}
    /\ s_lastParticipants = {Lydia}
    /\ RosterMembers = {Lydia}
    /\ DOMAIN s_dialogueHistory = {Nazeem}
    /\ Len(s_dialogueHistory[Nazeem]) = 1
    /\ s_lastPlayerTopicText = "Work?"

\* the README's limit on the stored dialogue (about 5 MB), in the scale of the
\* model: the size of a backlog is the number of its exchanges, and the limit
\* is one exchange below the largest backlog of the model
StoredDialogueLimit == MaxBacklog - 1

\* C25: the stored dialogue never exceeds the limit (it is wiped when an
\* exchange would take it over the limit).
C25_BacklogBounded == TotalLines(s_dialogueHistory) <= StoredDialogueLimit

\* C26: after a conversation-start notification with the tracker not in
\* error, the participant set is the set of the roster's members, no roster
\* member is a key of the backlog, and every character outside the roster has
\* the backlog it had.
C26_StartRebuildsParticipants ==
    [][ (StartStep /\ ~DialogueTrackerHasError)
        => /\ s_lastParticipants' = RosterMembers
           /\ \A k \in RosterMembers : k \notin DOMAIN s_dialogueHistory'
           /\ \A k \in Actors \ RosterMembers :
                  /\ (k \in DOMAIN s_dialogueHistory') = (k \in DOMAIN s_dialogueHistory)
                  /\ BacklogOf(s_dialogueHistory', k) = BacklogOf(s_dialogueHistory, k) ]_vars

\* a conversation with Lydia has started: she is the participant, her backlog
\* went out and is gone, and Nazeem's is as it was
C26_Witness ==
    /\ op.name = "notifyConversationStart"
    /\ ~DialogueTrackerHasError
    /\ RosterMembers = {Lydia} /\ s_lastParticipants = {Lydia}
    /\ sent = <<"Player: Work?;\n Lydia: Do you need something?">>
    /\ DOMAIN s_dialogueHistory = {Nazeem}
    /\ Len(s_dialogueHistory[Nazeem]) = 1

\* the last exchange of the speaker's backlog
LastBuffered(o) ==
    s_dialogueHistory[SpeakerOf(o)][Len(s_dialogueHistory[SpeakerOf(o)])]

\* the previous step was a call of the hook for an actor outside the running
\* conversation: the exchange was sent directly and is the last of the
\* actor's backlog
OverheardJustNow ==
    /\ op.name = "thunk" /\ SpeakerOf(op) \in Actors
    /\ ConversationActive /\ SpeakerOf(op) \notin RosterMembers
    /\ SpeakerOf(op) \in DOMAIN s_dialogueHistory
    /\ sent = <<AddDialogueExchangeAsync(LastBuffered(op))>>

\* C27: an exchange of a non-participant that was sent directly and buffered
\* during a running conversation is sent a second time, in the drain payload,
\* when the next conversation with that character starts (as every buffered
\* exchange of a roster member is) or when that character joins.
C27_OverheardSentAgain ==
    [][ /\ (StartStep /\ ConversationActive)
           => \A k \in RosterMembers :
                  Len(BacklogOf(s_dialogueHistory, k)) > 0
                      => \E i \in 1..Len(sent') :
                             ContainsInOrder(sent'[i], PiecesOf(s_dialogueHistory[k]), 1)
        /\ (JoinStep /\ OverheardJustNow /\ SpeakerOf(op) \in JoinedActors(op'))
           => \E i \in 1..Len(sent') :
                  ContainsInOrder(sent'[i], PiecesOf(<<LastBuffered(op)>>), 1) ]_vars

\* the response of the hook call o has fewer tokens than the short-reply rule
\* asks for
TooFewTokens(o) ==
    /\ config.FilterShortReplies
    /\ Len(split(NpcLineOf(o), " ")) < config.FilterShortRepliesMinWordCount

\* the greeting rule matches the hook call o
NonUniqueGreeting(o) ==
    /\ config.FilterNonUniqueGreetings
    /\ IsGreeting(TopicTextOf(o))
    /\ Deref(DialogueOf(o)).parentTopicInfo \notin {nullptr, "kSayOnce"}

\* the step treats the exchange of the hook call as an accepted one: its
\* query becomes the most recently processed one, and the exchange is sent or
\* appended (or dropped, by a tracker in its error state)
Dispatched ==
    /\ s_lastPlayerTopicText' = TopicTextOf(op')
    /\ \/ sent' = <<AddDialogueExchangeAsync(ExchangeOfCall(op'))>>
       \/ /\ SpeakerOf(op') \in DOMAIN s_dialogueHistory'
          /\ s_dialogueHistory'[SpeakerOf(op')] =
                 Append(BacklogOf(s_dialogueHistory, SpeakerOf(op')), ExchangeOfCall(op'))
       \/ DialogueTrackerHasError

\* C28: duplicate suppression knows the most recently accepted query only: a
\* call whose query differs from it, an earlier accepted query q1 after q2
\* included, is not suppressed unless another rule stops it.
C28_OnlyMostRecentRemembered ==
    [][ ( /\ HookStep
          /\ ~ReturnsBeforeFilter(SpeakerOf(op'), DialogueOf(op'), config)
          /\ TopicTextOf(op') # s_lastPlayerTopicText
          /\ ~Blacklisted(op') /\ ~NonUniqueGreeting(op') /\ ~TooFewTokens(op') )
        => Dispatched /\ ~Suppressed ]_vars

\* "Work?" and then "Hello" were accepted and buffered; Lydia joined the
\* roster, and "Work?", asked again, went out
C28_Witness ==
    /\ op.name = "thunk" /\ SpeakerOf(op) = Lydia
    /\ DialogueOf(op) = Dialogue("Work?", <<"Do you need something?">>, "repeatable")
    /\ ConversationActive /\ RosterMembers = {Lydia}
    /\ Lydia \in DOMAIN s_dialogueHistory
    /\ Len(s_dialogueHistory[Lydia]) = 2
    /\ s_dialogueHistory[Lydia][1].playerLine = "Work?"
    /\ s_dialogueHistory[Lydia][2].playerLine = "Hello"
    /\ Len(sent) = 1
    /\ s_lastPlayerTopicText = "Work?"

\* the hook call o has a greeting as its query and gets as far as the
\* greeting rule
GreetingCall(o) ==
    /\ ~ReturnsBeforeFilter(SpeakerOf(o), DialogueOf(o), config)
    /\ TopicTextOf(o) # s_lastPlayerTopicText
    /\ ~Blacklisted(o)
    /\ IsGreeting(TopicTextOf(o))

C30_MissingInfoNotSuppressed ==
    [][ ( /\ HookStep /\ GreetingCall(op')
          /\ config.FilterNonUniqueGreetings
          /\ Deref(DialogueOf(op')).parentTopicInfo = nullptr )
        => /\ Suppressed <=> TooFewTokens(op')
           /\ ~TooFewTokens(op') => Dispatched ]_vars

\* with the greeting rule on, Lydia's "Hello" without topic info has been
\* buffered
C30_Witness ==
    /\ op.name = "thunk" /\ SpeakerOf(op) = Lydia
    /\ config.FilterNonUniqueGreetings
    /\ DialogueOf(op) = Dialogue("Hello", <<"Do you need something?">>, nullptr)
    /\ RosterMembers = {} /\ ~DialogueTrackerHasError
    /\ s_lastPlayerTopicText = "Hello"
    /\ Lydia \in DOMAIN s_dialogueHistory
    /\ s_dialogueHistory[Lydia][Len(s_dialogueHistory[Lydia])] =
           [ playerLine |-> "Hello", playerName |-> "Player",
             npcLine |-> "Do you need something?", npcName |-> "Lydia",
             gameTimeHours |-> 0 ]
    /\ sent = <<>>

\* C31: a drain for a key that is not in the backlog does nothing: a
\* conversation start sends no message for a roster member without captured
\* dialogue and leaves that key absent (with no roster member in the backlog
\* nothing at all is sent and the backlog is unchanged), and a
\* participant-joined notification for actors without captured dialogue sends
\* nothing and leaves the backlog unchanged.
C31_AbsentKeyNotDrained ==
    [][ /\ StartStep
           => /\ Len(sent') <= Cardinality(RosterMembers \cap DOMAIN s_dialogueHistory)
              /\ \A k \in RosterMembers \ DOMAIN s_dialogueHistory :
                     k \notin DOMAIN s_dialogueHistory'
              /\ RosterMembers \cap DOMAIN s_dialogueHistory = {}
                     => sent' = <<>> /\ s_dialogueHistory' = s_dialogueHistory
        /\ (JoinStep /\ JoinedActors(op') \cap DOMAIN s_dialogueHistory = {})
           => sent' = <<>> /\ s_dialogueHistory' = s_dialogueHistory ]_vars

\* the conversation with Lydia, of whom nothing is captured, has started:
\* nothing was sent and Nazeem's captured exchange is where it was
C31_Witness ==
    /\ op.name = "notifyConversationStart"
    /\ ~DialogueTrackerHasError
    /\ RosterMembers = {Lydia} /\ s_lastParticipants = {Lydia}
    /\ sent = <<>>
    /\ DOMAIN s_dialogueHistory = {Nazeem}
    /\ Len(s_dialogueHistory[Nazeem]) = 1
    /\ s_lastPlayerTopicText = "Work?"

\* C32: a call of the hook that changes the backlog adds its exchange at the
\* end of the speaker's sequence and changes nothing else: the speaker's
\* earlier exchanges keep their content and order, and every other key keeps
\* its sequence.
C32_AppendAtEndOnly ==
    [][ (HookStep /\ s_dialogueHistory' # s_dialogueHistory)
        => /\ DOMAIN s_dialogueHistory' = DOMAIN s_dialogueHistory \cup {SpeakerOf(op')}
           /\ s_dialogueHistory'[SpeakerOf(op')] =
                  Append(BacklogOf(s_dialogueHistory, SpeakerOf(op')), ExchangeOfCall(op'))
           /\ \A k \in DOMAIN s_dialogueHistory \ {SpeakerOf(op')} :
                  s_dialogueHistory'[k] = s_dialogueHistory[k] ]_vars

\* Lydia's say-once greeting was appended after her "Work?", next to nothing
\* of Nazeem
C32_Witness ==
    /\ op.name = "thunk" /\ SpeakerOf(op) = Lydia
    /\ DialogueOf(op) = Dialogue("Hello", <<"Do you need something?">>, "kSayOnce")
    /\ DOMAIN s_dialogueHistory = {Lydia}
    /\ Len(s_dialogueHistory[Lydia]) = 2
    /\ s_dialogueHistory[Lydia][1].playerLine = "Work?"
    /\ s_dialogueHistory[Lydia][2].playerLine = "Hello"
    /\ s_dialogueHistory[Lydia][2].npcName = "Lydia"

C38_EmptyQueryIgnored ==
    [][ /\ op.name = "SKSEPluginLoad" => s_lastPlayerTopicText = ""
        /\ (HookStep /\ DialogueOf(op') # null /\ Len(TopicTextOf(op')) = 0)
           => Suppressed ]_vars

\* Lydia, a participant, spoke with an empty topic text after "Work?" had
\* been accepted: nothing went out and "Work?" is still the last query
C38_Witness ==
    /\ op.name = "thunk" /\ SpeakerOf(op) = Lydia
    /\ DialogueOf(op) = Dialogue("", <<"Do you need something?">>, "repeatable")
    /\ ConversationActive /\ RosterMembers = {Lydia}
    /\ s_lastPlayerTopicText = "Work?"
    /\ sent = <<>>

\* no roster member has a key in the backlog
RosterDrained(history) == RosterMembers \cap DOMAIN history = {}

\* C35: in an active conversation whose notifications have been processed no
\* roster member has a key in the backlog: it holds after the conversation
\* start; it holds after a participant-joined notification that names every
\* member of the roster of a conversation whose start was notified; and a call
\* of the hook keeps it.
C35_RosterHasNoBacklog ==
    [][ /\ (StartStep /\ ConversationActive) => RosterDrained(s_dialogueHistory')
        /\ ( /\ JoinStep /\ ConversationActive
             /\ s_lastParticipants # {}
             /\ RosterMembers \subseteq JoinedActors(op') )
           => RosterDrained(s_dialogueHistory')
        /\ (HookStep /\ ConversationActive /\ RosterDrained(s_dialogueHistory))
           => RosterDrained(s_dialogueHistory') ]_vars

\* what a drain of the key sends
DrainPayload(history, formID) == SendAndDiscardCapturedDialogue(history, formID).sent

\* C36: when a complete record is saved, every key of the backlog is a key of
\* the backlog decoded from that record, and a drain of the key after the load
\* sends the payload a drain before the save would have sent, names included.
C36_SameDrainAfterRoundTrip ==
    [][ RecordWritten
        => LET loaded == LoadRecords(coSave', EmptyHistory)
           IN  \A k \in DOMAIN s_dialogueHistory :
                   /\ k \in DOMAIN loaded
                   /\ DrainPayload(loaded, k) = DrainPayload(s_dialogueHistory, k) ]_vars

RevertStep == op'.name = "MyRevertCallback"

\* C37: a revert and a load send nothing and leave the most recently processed
\* query, the participants and the error flag as they are; the call of the
\* hook that follows one and asks the most recently processed query is
\* suppressed.
C37_RevertAndLoadKeepLastQuery ==
    [][ /\ (RevertStep \/ LoadStep)
           => /\ s_lastPlayerTopicText' = s_lastPlayerTopicText
              /\ sent' = <<>>
              /\ UNCHANGED << setupDone, trackerVars >>
        /\ ( /\ HookStep
             /\ op.name \in {"MyRevertCallback", "MyLoadCallback"}
             /\ DialogueOf(op') # null
             /\ TopicTextOf(op') = s_lastPlayerTopicText )
           => Suppressed ]_vars

\* "Work?" was accepted and buffered, the game was reverted, and Lydia was
\* asked "Work?" again outside a conversation: nothing is buffered
C37_Witness ==
    /\ op.name = "thunk" /\ SpeakerOf(op) = Lydia
    /\ TopicTextOf(op) = "Work?"
    /\ s_lastPlayerTopicText = "Work?"
    /\ ~DialogueTrackerHasError
    /\ RosterMembers = {}
    /\ s_dialogueHistory = EmptyHistory
    /\ sent = <<>>

\* --------------------------------- the tracker over several games: the
\* calendar moves, games are saved and loaded, Mantella.esp can be missing
\* the hour of the saves made in earlier games
EarlierSaveHour == EarlierBacklog(Lydia)[Lydia][1].gameTimeHours

\* a co-save cut short: Lydia's greeting, then a member that cannot be read
GreetingThenLacksFields ==
    dump(JsonObject(<< <<"666772", LinesToJson(
                           << BuildExchange(Lydia, Deref(Dialogue("Hello",
                                  <<"Do you need something?">>, "kSayOnce")), "",
                                  EarlierSaveHour) >>)>>,
                       <<"80831", JsonArray(<< JsonObject(<< <<"playerQuery",
                                                               JsonString("Work?")>> >>) >>)>> >>))

GameFiles ==
    { <<>>,
      <<Record("HIST", 1, 2, EarlierSave(Lydia))>>,
      <<Record("HIST", 1, 2, UnparseableText)>>,
      <<Record("HIST", 1, 2, GreetingThenLacksFields)>>,
      <<Record("HIST", 1, 2, EarlierSave(Nazeem)), Record("HIST", 1, 2, UnparseableText)>> }

\* the times of the exchanges of a backlog
TimesOf(history) ==
    UNION { {history[k][i].gameTimeHours : i \in 1..Len(history[k])} : k \in DOMAIN history }

\* RE::Calendar::GetHoursPassed grows while a game is played
HoursPass ==
    /\ setupDone
    /\ op.name # "LoadGame"
    /\ hoursPassed < MaxHours
    /\ hoursPassed' = hoursPassed + 1
    /\ op' = [name |-> "Calendar", call |-> <<>>]
    /\ sent' = <<>>
    /\ UNCHANGED << config, playerBaseName, formListExists, scriptAddedTempForms, coSave,
                    setupDone, trackerVars, s_dialogueHistory, s_lastPlayerTopicText >>

\* the host begins to load a game saved at the given hour, or a new game: the
\* calendar is that of the game, and the revert callback is called next
LoadGame(hours) ==
    /\ setupDone
    /\ op.name # "LoadGame"
    /\ hoursPassed' = hours
    /\ op' = [name |-> "LoadGame", call |-> <<hours>>]
    /\ sent' = <<>>
    /\ UNCHANGED << config, playerBaseName, formListExists, scriptAddedTempForms, coSave,
                    setupDone, trackerVars, s_dialogueHistory, s_lastPlayerTopicText >>

\* the co-save belongs to the game being loaded: what can be read of it was
\* captured before the game was saved
SavedBefore(records, hours) ==
    \A time \in TimesOf(LoadRecords(records, EmptyHistory)) : time <= hours

GamesInit ==
    /\ config = DefaultConfig
    /\ playerBaseName = ""
    /\ formListExists \in BOOLEAN
    /\ hoursPassed = EarlierSaveHour
    /\ scriptAddedTempForms = null
    /\ setupDone = FALSE
    /\ aParticipants = nullptr
    /\ DialogueTrackerHasError = FALSE
    /\ s_dialogueHistory = EmptyHistory
    /\ s_lastParticipants = {}
    /\ s_lastPlayerTopicText = ""
    /\ coSave = <<>>
    /\ alreadyDrained = {}
    /\ undelivered = {}
    /\ sent = <<>>
    /\ op = [name |-> "SKSEPluginLoad", call |-> <<>>]

GamesNext ==
    \/ Setup("TESDataHandler") /\ UNCHANGED << alreadyDrained, undelivered >>
    \/ RosterAddForm(Lydia) /\ op.name # "LoadGame" /\ UNCHANGED << alreadyDrained, undelivered >>
    \/ HoursPass /\ UNCHANGED << alreadyDrained, undelivered >>
    \/ \E call \in PersistCalls :
           /\ op.name # "LoadGame"
           /\ thunk(call[1], call[2])
           /\ UNCHANGED << alreadyDrained, undelivered >>
    \/ /\ op.name # "LoadGame"
       /\ notifyConversationStart
       /\ UNCHANGED << alreadyDrained, undelivered >>
    \/ /\ op.name # "LoadGame"
       /\ notifyActorAdded({Lydia})
       /\ UNCHANGED << alreadyDrained, undelivered >>
    \/ /\ op.name # "LoadGame"
       /\ MySaveCallback(TRUE, TRUE)
       /\ UNCHANGED << alreadyDrained, undelivered >>
    \/ \E hours \in EarlierSaveHour..MaxHours :
           LoadGame(hours) /\ UNCHANGED << alreadyDrained, undelivered >>
    \/ /\ op.name = "LoadGame"
       /\ MyRevertCallback
       /\ UNCHANGED << alreadyDrained, undelivered >>
    \/ \E records \in GameFiles \cup {coSave} :
           /\ SavedBefore(records, hoursPassed)
           /\ MyLoadCallback(records)
           /\ UNCHANGED << alreadyDrained, undelivered >>

GamesSpec == GamesInit /\ [][GamesNext]_vars

\* C34: with the tracker in its error state no call of the hook, no
\* conversation start and no participant-joined notification sends anything,
\* and the conversation start and the participant-joined notification leave
\* the backlog as it is.
C34_ErrorStateNeitherSendsNorDrains ==
    [][ DialogueTrackerHasError
        => /\ (HookStep \/ StartStep \/ JoinStep) => sent' = <<>>
           /\ (StartStep \/ JoinStep) => s_dialogueHistory' = s_dialogueHistory ]_vars

\* without Mantella.esp a game with Lydia's captured exchange was loaded, her
\* greeting was dropped and a conversation start was notified: the loaded
\* exchange is still there, unsent
C34_Witness ==
    /\ op.name = "notifyConversationStart"
    /\ DialogueTrackerHasError
    /\ DOMAIN s_dialogueHistory = {Lydia}
    /\ Len(s_dialogueHistory[Lydia]) = 1
    /\ s_dialogueHistory[Lydia][1].playerLine = "Work?"
    /\ s_dialogueHistory[Lydia][1].npcName = ""
    /\ s_lastPlayerTopicText = "Hello"
    /\ sent = <<>>

\* C39: with a calendar that does not go back while a game is played, the
\* times of the exchanges of every key never decrease along its sequence,
\* also after a load whose decode fails.
C39_TimesNeverDecrease ==
    \A k \in DOMAIN s_dialogueHistory :
        \A i, j \in 1..Len(s_dialogueHistory[k]) :
            i < j => s_dialogueHistory[k][i].gameTimeHours
                         <= s_dialogueHistory[k][j].gameTimeHours

\* the decode of the co-save cut short failed after Lydia's greeting, and an
\* hour later her "Work?" was appended behind it
C39_Witness ==
    /\ op.name = "thunk"
    /\ DOMAIN s_dialogueHistory = {Lydia}
    /\ Len(s_dialogueHistory[Lydia]) = 2
    /\ s_dialogueHistory[Lydia][1].playerLine = "Hello"
    /\ s_dialogueHistory[Lydia][1].npcName = ""
    /\ s_dialogueHistory[Lydia][1].gameTimeHours = EarlierSaveHour
    /\ s_dialogueHistory[Lydia][2].playerLine = "Work?"
    /\ s_dialogueHistory[Lydia][2].gameTimeHours = EarlierSaveHour + 1

====
